---- MODULE Spec2Model ----
(***************************************************************************)
(* Driver-discovery pipeline (DriversResearcher.research_drivers) of       *)
(* forecasting-tools, as a state machine.  One action is one atomic        *)
(* stretch of the coroutine code between two awaits: the resolution of a   *)
(* generation or search call together with the code that runs until the    *)
(* next call is awaited.                                                   *)
(***************************************************************************)
EXTENDS Integers, Sequences, FiniteSets, TLC

\* ------------------------------------------------------------------ bounds
MaxCands == 2     \* longest candidate list the broad scan returns
MaxSel == 2       \* longest index / assessment list a generation call returns
MaxPre == 2       \* longest precondition list a generation call returns
MaxTarget == 2    \* largest num_drivers_to_return

\* ------------------------------------------------- values of external output
Names == {"a", "b"}
Relevances == {0, 100}                      \* initial_relevance, in percent
PlausibilityLabels == {"high", "very_low"}  \* timescale_plausibility texts
Descriptions == {"x", "y"}                  \* precondition descriptions
StatusLabels == {"emerging", "contrary", "Emerging"}  \* status texts returned
NoKey == "missing"                          \* a key the returned dict lacks
PreconditionStatus == {"emerging", "stable", "absent", "contrary"}

SeqsUpTo(S, n) == UNION {[1..k -> S] : k \in 0..n}

Range(s) == {s[i] : i \in DOMAIN s}

\* a selection without the test 0 <= i: a negative index is kept
RECURSIVE SelectBelow(_, _)
SelectBelow(indices, n) ==
    IF indices = <<>> THEN <<>>
    ELSE (IF Head(indices) < n THEN <<Head(indices)>> ELSE <<>>)
         \o SelectBelow(Tail(indices), n)

\* [f(s[i]) : i in 1..Len(s), test(s[i])], order kept
RECURSIVE SelectInRange(_, _)
SelectInRange(indices, n) ==
    IF indices = <<>> THEN <<>>
    ELSE LET i == Head(indices)
             rest == SelectInRange(Tail(indices), n)
         IN IF 0 <= i /\ i < n THEN <<i>> \o rest ELSE rest

CandidateDriver == [name : Names, initial_relevance : Relevances]
\* candidate lists, up to renaming: the first candidate is called "a"
CandidateLists == {cs \in SeqsUpTo(CandidateDriver, MaxCands) :
                     cs = <<>> \/ cs[1].name = "a"}
IndexLists == SeqsUpTo((-1)..MaxCands, MaxSel)

\* class Precondition: status, evidence_summary default to None, citations to []
Precondition(d) ==
    [description |-> d, status |-> "unset", evidence_summary |-> "unset",
     citations |-> 0]
\* precondition lists, up to renaming: the first description is "x"
PreconditionLists == {[k \in DOMAIN ds |-> Precondition(ds[k])] :
                        ds \in {d \in SeqsUpTo(Descriptions, MaxPre) :
                                  d = <<>> \/ d[1] = "x"}}

\* the dicts a precondition search+extract call returns: a status text (or no
\* "status" key), an evidence summary and a number of citations
SearchResults ==
    {[status |-> "emerging", evidence_summary |-> "found", citations |-> 1],
     [status |-> "contrary", evidence_summary |-> "found", citations |-> 1],
     [status |-> "Emerging", evidence_summary |-> "found", citations |-> 1]}

\* ------------------------------------------------------------------- state
VARIABLES
    pc,                     \* where research_drivers is suspended
    num_drivers_to_return,  \* argument of research_drivers
    candidates,             \* phase-1 result: list[CandidateDriver]
    filtered,               \* phase-2 result: 0-based indices into candidates
    analysis,               \* per filtered slot: the analyze_driver task
    driver_analyses,        \* slots whose analyze_driver result is not None
    search,                 \* per (idx, j): the search_precondition task
    validated,              \* survivor list of _precondition_validation
    evidence,               \* per survivor: the validate_one task
    scored,                 \* list[ScoredDriver] of _validate_with_search
    calls,                  \* number of calls issued, per kind
    failed_slots,           \* history: slots whose analyze_driver gave None
    result,                 \* the returned list[ScoredDriver]
    error,                  \* the call of research_drivers' own sequence that failed
    rl_total,               \* rate limiter: tasks wrapped with the limit
    rl_waiting,             \* rate limiter: tasks waiting to be started
    rl_window,              \* rate limiter: tasks started, per age in seconds
    scoring,                \* one evaluation of the combined_score expression
    bot_pc,                 \* where run_research is suspended
    results,                \* per gathered stream: its outcome
    finished,               \* the gathered streams in the order they completed
    news,                   \* the news fetch: its outcome and its text
    research,               \* the report run_research returns
    gate_capacity,          \* the slots _concurrency_limiter was built with
    gate_value,             \* the slots of _concurrency_limiter now free
    call_pc,                \* per call of run_research: where it is
    guard,                  \* one call of _aggregate_predictions
    render                  \* one rendering of a driver and a base-rate list

pipelineVars == <<pc, num_drivers_to_return, candidates, filtered, analysis,
                  driver_analyses, search, validated, evidence, scored, calls,
                  failed_slots, result, error>>
rateVars == <<rl_total, rl_waiting, rl_window>>
scoreVars == <<scoring>>
botVars == <<bot_pc, results, finished, news, research>>
gateVars == <<gate_capacity, gate_value, call_pc>>
guardVars == <<guard>>
renderVars == <<render>>
vars == <<pipelineVars, rateVars, scoreVars, botVars, gateVars, guardVars, renderVars>>

CallKinds == {"broad_scan", "filter", "dominance", "preconditions",
              "search", "evidence", "score", "final_selection"}

Issue(kind, n) == [calls EXCEPT ![kind] = @ + n]

\* a limit of twice the intended number of calls
CallsPerPeriodDoubled == 2 * 300

\* the rate limit handed to wrap_coroutines_with_rate_limit (lines 312-316)
CALLS_PER_PERIOD == 300
TIME_PERIOD_IN_SECONDS == 60

Ages == 0..(TIME_PERIOD_IN_SECONDS - 1)

RateIdle ==
    /\ rl_total = 0
    /\ rl_waiting = 0
    /\ rl_window = [a \in Ages |-> 0]

\* no evaluation of the score under way
NoScoring ==
    [initial_relevance |-> 0, timescale_plausibility |-> "high", len |-> 0,
     favorable_count |-> 0, cited_count |-> 0, done |-> FALSE,
     alignment_score |-> [m |-> <<>>, e |-> 0], emergence_strength |-> "",
     combined_score |-> [m |-> <<>>, e |-> 0]]

ScoreIdle == scoring = NoScoring

\* nothing rendered
NoRender ==
    [drivers |-> <<>>, base_rates |-> <<>>, done |-> FALSE,
     drivers_markdown |-> <<>>, base_rates_markdown |-> <<>>]

RenderIdle == render = NoRender

\* _aggregate_predictions not called: a binary question without history
NoGuard ==
    [kind |-> "binary", given |-> FALSE, binary_history |-> <<>>,
     numeric_history |-> <<>>, binary_aggregate |-> 0,
     numeric_aggregate |-> <<>>, lower_bound |-> 0, upper_bound |-> 0,
     done |-> FALSE, raised |-> FALSE, binary_out |-> [m |-> <<>>, e |-> 0],
     numeric_out |-> <<>>]

GuardIdle == guard = NoGuard

\* the calls of run_research that share the gate
MaxCallers == 3
Callers == 1..MaxCallers

\* the largest number of slots the gate is built with
MaxCapacity == 2

\* no call of run_research made yet, a gate of one slot
GateIdle ==
    /\ gate_capacity = 1
    /\ gate_value = gate_capacity
    /\ call_pc = [c \in Callers |-> "idle"]

\* the streams handed to asyncio.gather, in its argument order (lines 152-154)
Streams == <<"drivers", "key_factors", "base_rates">>

\* run_research not yet called
BotIdle ==
    /\ bot_pc = "start"
    /\ results = [s \in Range(Streams) |-> "pending"]
    /\ finished = <<>>
    /\ news = [st |-> "pending", text |-> <<>>]
    /\ research = <<>>

PipelineIdle ==
    /\ pc = "start"
    /\ candidates = <<>>
    /\ filtered = <<>>
    /\ analysis = <<>>
    /\ driver_analyses = <<>>
    /\ search = <<>>
    /\ validated = <<>>
    /\ evidence = <<>>
    /\ scored = <<>>
    /\ calls = [k \in CallKinds |-> 0]
    /\ failed_slots = {}
    /\ result = <<>>
    /\ error = "none"

Init ==
    /\ num_drivers_to_return \in 1..MaxTarget
    /\ PipelineIdle
    /\ RateIdle
    /\ ScoreIdle
    /\ BotIdle
    /\ GateIdle
    /\ GuardIdle
    /\ RenderIdle

\* ----------------------------------------------------------------- phase 1
\* research_drivers up to its first await: the broad-scan call is issued
CallResearchDrivers ==
    /\ pc = "start"
    /\ pc' = "broad_scan"
    /\ calls' = Issue("broad_scan", 1)
    /\ UNCHANGED <<num_drivers_to_return, candidates, filtered, analysis,
                   driver_analyses, search, validated, evidence,
                   scored, failed_slots, result, error>>
    /\ UNCHANGED <<rateVars, scoreVars, botVars, gateVars, guardVars, renderVars>>

\* the call `kind` raises and the exception leaves research_drivers: nothing
\* in it catches one
Raise(kind) ==
    /\ pc' = "raised"
    /\ error' = kind

\* a broad scan that is tried once more after it failed
BroadScanFailRetried ==
    /\ pc = "broad_scan"
    /\ calls["broad_scan"] < 2
    /\ error' = "broad_scan"
    /\ pc' = "broad_scan"
    /\ calls' = Issue("broad_scan", 1)
    /\ UNCHANGED <<num_drivers_to_return, candidates, filtered, analysis,
                   driver_analyses, search, validated, evidence, scored,
                   failed_slots, result>>
    /\ UNCHANGED <<rateVars, scoreVars, botVars, gateVars, guardVars, renderVars>>

\* _broad_scan raises: the await at line 37 is not guarded
BroadScanFail ==
    /\ pc = "broad_scan"
    /\ Raise("broad_scan")
    /\ UNCHANGED <<num_drivers_to_return, candidates, filtered, analysis,
                   driver_analyses, search, validated, evidence,
                   scored, calls, failed_slots, result>>
    /\ UNCHANGED <<rateVars, scoreVars, botVars, gateVars, guardVars, renderVars>>

\* _broad_scan returns cs; _filter_candidates renders them and issues its call
BroadScanReturn ==
    /\ pc = "broad_scan"
    /\ \E cs \in CandidateLists : candidates' = cs
    /\ pc' = "filter"
    /\ calls' = Issue("filter", 1)
    /\ UNCHANGED <<num_drivers_to_return, filtered, analysis, driver_analyses,
                   search, validated, evidence, scored,
                   failed_slots, result, error>>
    /\ UNCHANGED <<rateVars, scoreVars, botVars, gateVars, guardVars, renderVars>>

\* ----------------------------------------------------------------- phase 2
\* [candidates[i] for i in indices if 0 <= i < len(candidates)]
FilterKept(indices, cands) == SelectInRange(indices, Len(cands))

\* the analyze_driver coroutine of one candidate, suspended in its first call
NewAnalysis == [st |-> "dominance", dominance |-> "unset", preconditions |-> <<>>]

\* the filter call raises: the await at line 150 is not guarded
FilterFail ==
    /\ pc = "filter"
    /\ Raise("filter")
    /\ UNCHANGED <<num_drivers_to_return, candidates, filtered, analysis,
                   driver_analyses, search, validated, evidence,
                   scored, calls, failed_slots, result>>
    /\ UNCHANGED <<rateVars, scoreVars, botVars, gateVars, guardVars, renderVars>>

\* the filter call returns indices; _precondition_validation starts: with no
\* candidate it returns [], [] and _validate_with_search([]) returns [], else
\* one analyze_driver per candidate is launched and issues its dominance call
FilterReturn ==
    /\ pc = "filter"
    /\ \E indices \in IndexLists :
         LET kept == FilterKept(indices, candidates) IN
         /\ filtered' = kept
         /\ IF kept = <<>>
            THEN /\ pc' = "returned"
                 /\ analysis' = <<>>
                 /\ calls' = calls
            ELSE /\ pc' = "analyze"
                 /\ analysis' = [i \in 1..Len(kept) |-> NewAnalysis]
                 /\ calls' = Issue("dominance", Len(kept))
    /\ result' = <<>>
    /\ UNCHANGED <<num_drivers_to_return, candidates, driver_analyses, search,
                   validated, evidence, scored, failed_slots,
                   error>>
    /\ UNCHANGED <<rateVars, scoreVars, botVars, gateVars, guardVars, renderVars>>

\* ---------------------------------------------------------------- phase 3a
Resolved(a) == a.st \in {"done", "none"}

\* a failed dominance call that falls through to the preconditions call
DominanceFailedFallsThrough(a) == [a EXCEPT !.st = "preconditions"]

\* except Exception: return None   (lines 215-217)
DominanceFailed(a) == [a EXCEPT !.st = "none"]

\* the dominance call of slot i raises
DominanceFail(i) ==
    /\ pc = "analyze"
    /\ analysis[i].st = "dominance"
    /\ analysis' = [analysis EXCEPT ![i] = DominanceFailed(@)]
    /\ calls' = IF analysis'[i].st = "preconditions"
                THEN Issue("preconditions", 1) ELSE calls
    /\ failed_slots' = IF analysis'[i].st = "none"
                       THEN failed_slots \cup {i} ELSE failed_slots
    /\ UNCHANGED <<pc, num_drivers_to_return, candidates, filtered,
                   driver_analyses, search, validated, evidence,
                   scored, result, error>>
    /\ UNCHANGED <<rateVars, scoreVars, botVars, gateVars, guardVars, renderVars>>

\* the dominance call of slot i returns; the preconditions call is issued
DominanceReturn(i) ==
    /\ pc = "analyze"
    /\ analysis[i].st = "dominance"
    /\ \E p \in PlausibilityLabels :
         analysis' = [analysis EXCEPT ![i] =
                        [@ EXCEPT !.st = "preconditions", !.dominance = p]]
    /\ calls' = Issue("preconditions", 1)
    /\ UNCHANGED <<pc, num_drivers_to_return, candidates, filtered,
                   driver_analyses, search, validated, evidence,
                   scored, failed_slots, result, error>>
    /\ UNCHANGED <<rateVars, scoreVars, botVars, gateVars, guardVars, renderVars>>

\* the preconditions call of slot i raises: return None   (lines 246-248)
PreconditionsFail(i) ==
    /\ pc = "analyze"
    /\ analysis[i].st = "preconditions"
    /\ analysis' = [analysis EXCEPT ![i].st = "none"]
    /\ failed_slots' = failed_slots \cup {i}
    /\ UNCHANGED <<pc, num_drivers_to_return, candidates, filtered,
                   driver_analyses, search, validated, evidence,
                   scored, calls, result, error>>
    /\ UNCHANGED <<rateVars, scoreVars, botVars, gateVars, guardVars, renderVars>>

\* the preconditions call of slot i returns: (candidate, dominance, preconditions)
PreconditionsReturn(i) ==
    /\ pc = "analyze"
    /\ analysis[i].st = "preconditions"
    /\ \E ps \in PreconditionLists :
         analysis' = [analysis EXCEPT ![i] =
                        [@ EXCEPT !.st = "done", !.preconditions = ps]]
    /\ UNCHANGED <<pc, num_drivers_to_return, candidates, filtered,
                   driver_analyses, search, validated, evidence,
                   scored, calls, failed_slots, result, error>>
    /\ UNCHANGED <<rateVars, scoreVars, botVars, gateVars, guardVars, renderVars>>

\* run_coroutines_while_removing_and_logging_exceptions: every task of the
\* batch has resolved; the results come back in the order of the coroutines
BatchResolved(tasks) == \A i \in DOMAIN tasks : Resolved(tasks[i])

\* driver_analyses = [r for r in results if r is not None], as slot numbers
RECURSIVE NotNone(_, _)
NotNone(tasks, i) ==
    IF i > Len(tasks) THEN <<>>
    ELSE (IF tasks[i].st = "done" THEN <<i>> ELSE <<>>) \o NotNone(tasks, i + 1)

\* all_search_tasks: one (idx, j) per precondition of every analysed driver
RECURSIVE AllSearchTasks(_, _)
AllSearchTasks(pres, idx) ==
    IF idx > Len(pres) THEN <<>>
    ELSE [j \in 1..Len(pres[idx]) |-> <<idx, j>>] \o AllSearchTasks(pres, idx + 1)

\* `return candidates, []` (line 261): every candidate passes, unanalysed
AllCandidates(kept) == [i \in 1..Len(kept) |-> [cand |-> kept[i], slot |-> i]]

\* _validate_with_search launches one validate_one per survivor, each issuing
\* its evidence call; with no survivor [] is returned all the way up
StartEvidence(v) ==
    IF v = <<>>
    THEN /\ pc' = "returned"
         /\ evidence' = <<>>
         /\ calls' = calls
    ELSE /\ pc' = "evidence"
         /\ evidence' = [k \in DOMAIN v |-> [st |-> "running", signals |-> 0]]
         /\ calls' = Issue("evidence", Len(v))

\* every analyze_driver has resolved: with no analysis the candidates pass as
\* they are to phase 4, else one rate-limited search_precondition per task is
\* launched
AnalyzeBatchDone ==
    /\ pc = "analyze"
    /\ BatchResolved(analysis)
    /\ LET da == NotNone(analysis, 1)
           pres == [idx \in 1..Len(da) |-> analysis[da[idx]].preconditions]
           tasks == AllSearchTasks(pres, 1)
       IN IF da = <<>>
          THEN /\ validated' = AllCandidates(filtered)
               /\ StartEvidence(AllCandidates(filtered))
               /\ analysis' = <<>>
               /\ UNCHANGED <<driver_analyses, search>>
          ELSE /\ pc' = "search"
               /\ driver_analyses' = da
               /\ search' = [idx \in 1..Len(da) |->
                               [j \in 1..Len(pres[idx]) |-> "running"]]
               /\ calls' = Issue("search", Len(tasks))
               /\ UNCHANGED <<analysis, validated, evidence>>
    /\ UNCHANGED <<num_drivers_to_return, candidates, filtered, scored,
                   failed_slots, result, error>>
    /\ UNCHANGED <<rateVars, scoreVars, botVars, gateVars, guardVars, renderVars>>

\* ---------------------------------------------------------------- phase 3b
\* a failed search that leaves the precondition as it was
FailedPreconditionLeftUnset(p) == p

\* a failed search that also resets what an earlier search had found
FailedPreconditionCleared(p) ==
    [p EXCEPT !.status = "absent", !.evidence_summary = "", !.citations = 0]

\* except Exception: precondition.status = PreconditionStatus.ABSENT (line 307)
FailedPrecondition(p) == [p EXCEPT !.status = "absent"]

\* lines 300-302; PreconditionStatus(text) raises on a text that is no member,
\* before evidence_summary and citations are assigned
SearchedPrecondition(p, r) ==
    LET text == IF r.status = NoKey THEN "absent" ELSE r.status
    IN IF text \in PreconditionStatus
       THEN [p EXCEPT !.status = text,
                      !.evidence_summary = r.evidence_summary,
                      !.citations = r.citations]
       ELSE FailedPrecondition(p)

Classified(r) == r.status = NoKey \/ r.status \in PreconditionStatus

\* tasks of a candidate that was selected twice sharing the precondition
\* list of its first analysis
TaskSlotOfCandidate(idx) ==
    driver_analyses[CHOOSE m \in DOMAIN driver_analyses :
        /\ filtered[driver_analyses[m]] = filtered[driver_analyses[idx]]
        /\ \A k \in DOMAIN driver_analyses :
             filtered[driver_analyses[k]] = filtered[driver_analyses[idx]]
                 => m <= k]

\* lines 265-267: the precondition of task (idx, j) is the j-th of the list
\* of the idx-th tuple of driver_analyses, the list its own preconditions
\* call returned
TaskSlot(idx) == driver_analyses[idx]

\* the search or the extraction call of task (idx, j) raises
SearchFail(idx, j) ==
    /\ pc = "search"
    /\ search[idx][j] = "running"
    /\ search' = [search EXCEPT ![idx][j] = "failed"]
    /\ analysis' = [analysis EXCEPT ![TaskSlot(idx)].preconditions[j] =
                      FailedPrecondition(@)]
    /\ UNCHANGED <<pc, num_drivers_to_return, candidates, filtered,
                   driver_analyses, validated, evidence, scored,
                   calls, failed_slots, result, error>>
    /\ UNCHANGED <<rateVars, scoreVars, botVars, gateVars, guardVars, renderVars>>

\* _search_and_extract of task (idx, j) returns the dict r
SearchReturnsDict(idx, j, r) ==
    /\ search' = [search EXCEPT ![idx][j] =
                    IF Classified(r) THEN "ok" ELSE "failed"]
    /\ analysis' = [analysis EXCEPT
                      ![TaskSlot(idx)].preconditions[j] =
                         SearchedPrecondition(@, r)]

\* _search_and_extract of task (idx, j) returns a dict
SearchReturn(idx, j) ==
    /\ pc = "search"
    /\ search[idx][j] = "running"
    /\ \E r \in SearchResults : SearchReturnsDict(idx, j, r)
    /\ UNCHANGED <<pc, num_drivers_to_return, candidates, filtered,
                   driver_analyses, validated, evidence, scored,
                   calls, failed_slots, result, error>>
    /\ UNCHANGED <<rateVars, scoreVars, botVars, gateVars, guardVars, renderVars>>

\* ------------------------------------------- binary64 floating-point values
\* Python's float is an IEEE-754 binary64.  A natural number is a sequence of
\* limbs in base 2^15, least significant first, with no leading zero limb; a
\* non-negative float is [m |-> natural, e |-> exponent], of value m * 2^e,
\* with m of exactly 53 bits (zero is [m |-> <<>>, e |-> 0]), so that equal
\* values are equal records.
LimbBits == 15
LimbBase == 2 ^ LimbBits
MantissaBits == 53

RECURSIVE NatNormal(_)
NatNormal(n) ==
    IF n = <<>> THEN <<>>
    ELSE IF n[Len(n)] = 0 THEN NatNormal(SubSeq(n, 1, Len(n) - 1))
    ELSE n

\* bit i (from 0) of the natural n
NatBit(n, i) ==
    IF i < 0 \/ i \div LimbBits >= Len(n) THEN 0
    ELSE (n[i \div LimbBits + 1] \div 2 ^ (i % LimbBits)) % 2

\* number of bits of the natural n
BitLen(n) ==
    IF n = <<>> THEN 0
    ELSE LimbBits * (Len(n) - 1)
         + (CHOOSE k \in 1..LimbBits :
                2 ^ (k - 1) <= n[Len(n)] /\ n[Len(n)] < 2 ^ k)

\* the number made of the w bits of n from bit lo on
RECURSIVE BitsValue(_, _, _)
BitsValue(n, lo, w) ==
    IF w = 0 THEN 0 ELSE NatBit(n, lo) + 2 * BitsValue(n, lo + 1, w - 1)

\* n shifted right by k bits (left by -k bits when k < 0)
NatShift(n, k) ==
    LET limbs == IF BitLen(n) - k <= 0 THEN 0
                 ELSE (BitLen(n) - k + LimbBits - 1) \div LimbBits
    IN NatNormal([j \in 1..limbs |->
                     BitsValue(n, k + LimbBits * (j - 1), LimbBits)])

RECURSIVE NatAddFrom(_, _, _, _)
NatAddFrom(a, b, j, carry) ==
    IF j > Len(a) /\ j > Len(b)
    THEN IF carry = 0 THEN <<>> ELSE <<carry>>
    ELSE LET s == (IF j <= Len(a) THEN a[j] ELSE 0)
                  + (IF j <= Len(b) THEN b[j] ELSE 0) + carry
         IN <<s % LimbBase>> \o NatAddFrom(a, b, j + 1, s \div LimbBase)

NatAdd(a, b) == NatAddFrom(a, b, 1, 0)

\* a - b for two naturals, a >= b
RECURSIVE NatSubFrom(_, _, _, _)
NatSubFrom(a, b, j, borrow) ==
    IF j > Len(a) THEN <<>>
    ELSE LET d == a[j] - (IF j <= Len(b) THEN b[j] ELSE 0) - borrow
         IN <<d % LimbBase>> \o NatSubFrom(a, b, j + 1, IF d < 0 THEN 1 ELSE 0)

NatSub(a, b) == NatNormal(NatSubFrom(a, b, 1, 0))

\* the natural a times the limb x
RECURSIVE NatTimesLimb(_, _, _, _)
NatTimesLimb(a, x, j, carry) ==
    IF j > Len(a) THEN IF carry = 0 THEN <<>> ELSE <<carry>>
    ELSE LET p == a[j] * x + carry
         IN <<p % LimbBase>> \o NatTimesLimb(a, x, j + 1, p \div LimbBase)

RECURSIVE NatMulFrom(_, _, _)
NatMulFrom(a, b, j) ==
    IF j > Len(b) THEN <<>>
    ELSE NatAdd(NatNormal(NatTimesLimb(a, b[j], 1, 0)),
                IF NatMulFrom(a, b, j + 1) = <<>> THEN <<>>
                ELSE <<0>> \o NatMulFrom(a, b, j + 1))

NatMul(a, b) == NatMulFrom(a, b, 1)

\* a >= b for two naturals
RECURSIVE NatGEFrom(_, _, _)
NatGEFrom(a, b, j) ==
    IF j = 0 THEN TRUE
    ELSE IF a[j] # b[j] THEN a[j] > b[j]
    ELSE NatGEFrom(a, b, j - 1)

NatGE(a, b) ==
    IF Len(a) # Len(b) THEN Len(a) > Len(b) ELSE NatGEFrom(a, b, Len(a))

\* quotient and remainder of the natural n by the small number d, from limb j down
RECURSIVE NatDivFrom(_, _, _, _)
NatDivFrom(n, d, j, rem) ==
    IF j = 0 THEN [q |-> <<>>, r |-> rem]
    ELSE LET x == rem * LimbBase + n[j]
             rest == NatDivFrom(n, d, j - 1, x % d)
         IN [q |-> rest.q \o <<x \div d>>, r |-> rest.r]

FloatZero == [m |-> <<>>, e |-> 0]

\* the float of value n * 2^e, n having at most 53 bits
FloatExact(n, e) ==
    IF n = <<>> THEN FloatZero
    ELSE [m |-> NatShift(n, BitLen(n) - MantissaBits),
          e |-> e + BitLen(n) - MantissaBits]

\* the float nearest to n * 2^e (plus a non-zero fraction of 2^e if sticky),
\* ties to the even mantissa
FloatRound(n, e, sticky) ==
    IF BitLen(n) <= MantissaBits THEN FloatExact(n, e)
    ELSE LET k == BitLen(n) - MantissaBits
             q == NatShift(n, k)
             below == sticky \/ \E i \in 0..(k - 2) : NatBit(n, i) = 1
             up == NatBit(n, k - 1) = 1 /\ (below \/ NatBit(q, 0) = 1)
         IN FloatExact(IF up THEN NatAdd(q, <<1>>) ELSE q, e + k)

\* x + y
FloatAdd(x, y) ==
    LET e == IF x.e <= y.e THEN x.e ELSE y.e
    IN FloatRound(NatAdd(NatShift(x.m, e - x.e), NatShift(y.m, e - y.e)),
                  e, FALSE)

\* x * y
FloatMul(x, y) == FloatRound(NatMul(x.m, y.m), x.e + y.e, FALSE)

\* x >= y
FloatGE(x, y) ==
    IF y.m = <<>> THEN TRUE
    ELSE IF x.m = <<>> THEN FALSE
    ELSE IF x.e # y.e THEN x.e > y.e
    ELSE NatGE(x.m, y.m)

\* abs(x - y)
FloatAbsDiff(x, y) ==
    LET e == IF x.e <= y.e THEN x.e ELSE y.e
        a == NatShift(x.m, e - x.e)
        b == NatShift(y.m, e - y.e)
    IN FloatRound(IF NatGE(a, b) THEN NatSub(a, b) ELSE NatSub(b, a), e, FALSE)

\* x > y
FloatGT(x, y) == ~FloatGE(y, x)

FractionBits == 5 * LimbBits

\* x / d for a float x and a small whole number d > 0
FloatOverInt(x, d) ==
    LET n == NatShift(x.m, -FractionBits)
        q == NatDivFrom(n, d, Len(n), 0)
    IN FloatRound(NatNormal(q.q), x.e - FractionBits, q.r # 0)

\* a / b for two small integers a >= 0, b > 0: the true division of Python,
\* and the value of the decimal literal a/b
FloatOfRatio(a, b) ==
    LET n == NatShift(IF a = 0 THEN <<>> ELSE <<a>>, -FractionBits)
        d == NatDivFrom(n, b, Len(n), 0)
    IN FloatRound(NatNormal(d.q), -FractionBits, d.r # 0)

\* ---------------------------------------------------------------- phase 3c
Candidate(slot) == candidates[filtered[slot] + 1]

\* dicts keyed by the driver's name
DriverKeyByName(idx, candidate) == candidate.name

\* the key of driver_preconditions, driver_dominance, driver_candidate
DriverKey(idx, candidate) == idx

\* dict assignment: the last entry written under a key is the one it holds
Owner(keys, idx) ==
    CHOOSE m \in DOMAIN keys :
        /\ keys[m] = keys[idx]
        /\ \A k \in DOMAIN keys : keys[k] = keys[idx] => k <= m

\* dict iteration: the keys in the order they were first inserted
RECURSIVE FirstInsertions(_, _)
FirstInsertions(keys, idx) ==
    IF idx > Len(keys) THEN <<>>
    ELSE (IF \E k \in 1..(idx - 1) : keys[k] = keys[idx] THEN <<>> ELSE <<idx>>)
         \o FirstInsertions(keys, idx + 1)

\* lines 334-340: every precondition of the driver's list whose description
\* equals the searched one takes the searched one's fields
RECURSIVE UpdateWithSearchResults(_, _, _)
UpdateWithSearchResults(pres, search_results, keys) ==
    IF search_results = <<>> THEN pres
    ELSE LET idx == Head(search_results)[1]
             precondition == pres[idx][Head(search_results)[2]]
             tgt == Owner(keys, idx)
             Updated(p) ==
                 IF p.description = precondition.description
                 THEN [p EXCEPT !.status = precondition.status,
                                !.evidence_summary = precondition.evidence_summary,
                                !.citations = precondition.citations]
                 ELSE p
             upd == [pres EXCEPT ![tgt] = [k \in DOMAIN pres[tgt] |->
                                             Updated(pres[tgt][k])]]
         IN UpdateWithSearchResults(upd, Tail(search_results), keys)

Favorable(p) == p.status \in {"emerging", "stable"}
HasCitations(p) == p.citations > 0

\* sum(1 for p in preconditions if p.status in favorable_statuses)
FavorableCount(ps) == Cardinality({k \in DOMAIN ps : Favorable(ps[k])})

\* sum(1 for p in preconditions if p.citations)
CitedCount(ps) == Cardinality({k \in DOMAIN ps : HasCitations(ps[k])})

\* favorable_count / len(preconditions) if preconditions else 0  (lines 360-362)
AlignmentOf(favorable_count, len) ==
    IF len > 0 THEN FloatOfRatio(favorable_count, len) ELSE FloatZero

\* alignment_score for every pair of counts of the model
AlignmentTable ==
    [favorable_count \in 0..MaxPre, len \in 0..MaxPre |->
        AlignmentOf(favorable_count, len)]

\* alignment_score  (lines 357-362)
AlignmentScore(ps) == AlignmentTable[FavorableCount(ps), Len(ps)]

\* the literals 0.75, 0.5 and 0.25 of lines 365-369
STRONG_FROM == FloatOfRatio(75, 100)
MODERATE_FROM == FloatOfRatio(5, 10)
WEAK_FROM == FloatOfRatio(25, 100)

\* a labelling that needs more than the threshold
EmergenceStrengthStrict(al) ==
    IF FloatGT(al, STRONG_FROM) THEN "strong"
    ELSE IF FloatGT(al, MODERATE_FROM) THEN "moderate"
    ELSE IF FloatGT(al, WEAK_FROM) THEN "weak"
    ELSE "very_weak"

\* lines 365-372
EmergenceStrength(al) ==
    IF FloatGE(al, STRONG_FROM) THEN "strong"
    ELSE IF FloatGE(al, MODERATE_FROM) THEN "moderate"
    ELSE IF FloatGE(al, WEAK_FROM) THEN "weak"
    ELSE "very_weak"

\* plausibility_scores.get(label, 0.5)  (lines 346, 385-387)
PlausibilityScore(label) ==
    CASE label = "high" -> FloatOfRatio(10, 10)
      [] label = "medium" -> FloatOfRatio(7, 10)
      [] label = "low" -> FloatOfRatio(4, 10)
      [] label = "very_low" -> FloatOfRatio(1, 10)
      [] OTHER -> FloatOfRatio(5, 10)

Max(a, b) == IF a >= b THEN a ELSE b

\* sum(1 for p in preconditions if p.citations) / max(len(preconditions), 1)
EvidenceQualityOf(cited_count, len) == FloatOfRatio(cited_count, Max(len, 1))

\* evidence_quality  (lines 388-390)
EvidenceQuality(ps) == EvidenceQualityOf(CitedCount(ps), Len(ps))

\* the weights of lines 393-396
RELEVANCE_WEIGHT == FloatOfRatio(30, 100)
ALIGNMENT_WEIGHT == FloatOfRatio(40, 100)
PLAUSIBILITY_WEIGHT == FloatOfRatio(20, 100)
EVIDENCE_WEIGHT == FloatOfRatio(10, 100)

\* 0.30 * relevance + 0.40 * alignment + 0.20 * plausibility
\*   + 0.10 * evidence_quality, added from left to right  (lines 392-397)
CombinedScoreOf(initial_relevance, alignment_score, plausibility, evidence_quality) ==
    FloatAdd(FloatAdd(FloatAdd(FloatMul(RELEVANCE_WEIGHT, initial_relevance),
                               FloatMul(ALIGNMENT_WEIGHT, alignment_score)),
                      FloatMul(PLAUSIBILITY_WEIGHT, plausibility)),
             FloatMul(EVIDENCE_WEIGHT, evidence_quality))

\* the float of a relevance given in percent
RelevanceOf(percent) == FloatOfRatio(percent, 100)

\* combined_score for every candidate and precondition counts of the model
ScoreTable ==
    [rel \in Relevances, label \in PlausibilityLabels, len \in 0..MaxPre,
     favorable_count \in 0..MaxPre, cited_count \in 0..MaxPre |->
        CombinedScoreOf(RelevanceOf(rel), AlignmentOf(favorable_count, len),
                        PlausibilityScore(label),
                        EvidenceQualityOf(cited_count, len))]

\* combined_score of one analysed candidate  (lines 348-397)
CombinedScore(candidate, dominance, ps) ==
    ScoreTable[candidate.initial_relevance, dominance, Len(ps),
               FavorableCount(ps), CitedCount(ps)]

\* cls.PRECONDITION_THRESHOLD  (line 25)
PRECONDITION_THRESHOLD == FloatOfRatio(2, 10)

\* a threshold test that drops a score equal to the threshold
AboveThresholdStrictly(s) ==
    FloatGE(s, PRECONDITION_THRESHOLD) /\ s # PRECONDITION_THRESHOLD

\* s >= cls.PRECONDITION_THRESHOLD  (line 402)
AboveThreshold(s) == FloatGE(s, PRECONDITION_THRESHOLD)

\* s >= t for two scores
AtLeast(s, t) == FloatGE(s, t)

\* list.sort(key=score, reverse=True): stable, equal scores keep their order
RECURSIVE SortedDescending(_)
SortedDescending(entries) ==
    IF entries = <<>> THEN <<>>
    ELSE LET front == SortedDescending(SubSeq(entries, 1, Len(entries) - 1))
             e == entries[Len(entries)]
             before == Cardinality({k \in DOMAIN front :
                                      AtLeast(front[k].score, e.score)})
         IN SubSeq(front, 1, before) \o <<e>>
            \o SubSeq(front, before + 1, Len(front))

RECURSIVE SelectAbove(_)
SelectAbove(entries) ==
    IF entries = <<>> THEN <<>>
    ELSE (IF AboveThreshold(Head(entries).score) THEN <<Head(entries)>> ELSE <<>>)
         \o SelectAbove(Tail(entries))

\* lines 400-405: threshold filter, sort, strip the scores
Validated(scored_candidates) ==
    LET kept == SortedDescending(SelectAbove(scored_candidates))
    IN [k \in DOMAIN kept |-> [cand |-> kept[k].cand, slot |-> kept[k].slot]]

\* lines 374-380
PreconditionAnalysis(slot, candidate, dominance, ps) ==
    [driver_name |-> candidate.name,
     dominance_scenario |-> dominance,
     preconditions |-> ps,
     precondition_alignment_score |-> AlignmentScore(ps),
     overall_emergence_strength |-> EmergenceStrength(AlignmentScore(ps)),
     slot |-> slot]

\* the three dicts after the update loop, in iteration order: per key the
\* slot of the driver it holds and that driver's preconditions
Recombined(da) ==
    LET keys == [idx \in DOMAIN da |-> DriverKey(idx, Candidate(da[idx]))]
        pres0 == [idx \in DOMAIN da |-> analysis[da[idx]].preconditions]
        pres == UpdateWithSearchResults(pres0, AllSearchTasks(pres0, 1), keys)
        order == FirstInsertions(keys, 1)
    IN [n \in DOMAIN order |->
          [slot |-> da[Owner(keys, order[n])],
           preconditions |-> pres[Owner(keys, order[n])]]]

SearchResolved ==
    \A idx \in DOMAIN search : \A j \in DOMAIN search[idx] :
        search[idx][j] # "running"

\* scored_candidates (line 398), with the slot each candidate came from
ScoredCandidates ==
    LET items == Recombined(driver_analyses)
    IN [n \in DOMAIN items |->
          [cand |-> filtered[items[n].slot],
           slot |-> items[n].slot,
           score |-> CombinedScore(Candidate(items[n].slot),
                                   analysis[items[n].slot].dominance,
                                   items[n].preconditions)]]

\* an analysis list that keeps the analyses of the survivors only
AnalysesOfSurvivors ==
    LET items == Recombined(driver_analyses)
        kept == SelectAbove(ScoredCandidates)
    IN [n \in DOMAIN kept |->
          PreconditionAnalysis(kept[n].slot, Candidate(kept[n].slot),
                               analysis[kept[n].slot].dominance,
                               (CHOOSE it \in Range(items) :
                                    it.slot = kept[n].slot).preconditions)]

\* the analysis list _precondition_validation returns (line 407)
analyses ==
    LET items == Recombined(driver_analyses)
    IN [n \in DOMAIN items |->
          PreconditionAnalysis(items[n].slot, Candidate(items[n].slot),
                               analysis[items[n].slot].dominance,
                               items[n].preconditions)]

\* every search_precondition has resolved: recombine, score, filter, sort and
\* return (the analysis list is dropped by research_drivers); phase 4 starts
SearchBatchDone ==
    /\ pc = "search"
    /\ SearchResolved
    /\ validated' = Validated(ScoredCandidates)
    /\ StartEvidence(validated')
    /\ analysis' = <<>>
    /\ driver_analyses' = <<>>
    /\ search' = <<>>
    /\ UNCHANGED <<num_drivers_to_return, candidates, filtered, scored,
                   failed_slots, result, error>>
    /\ UNCHANGED <<rateVars, scoreVars, botVars, gateVars, guardVars, renderVars>>

\* ----------------------------------------------------------------- phase 4
SignalCounts == {0, 1}

\* the evidence search or extraction of survivor k raises: return None
EvidenceFail(k) ==
    /\ pc = "evidence"
    /\ evidence[k].st = "running"
    /\ evidence' = [evidence EXCEPT ![k].st = "none"]
    /\ UNCHANGED <<pc, num_drivers_to_return, candidates, filtered, analysis,
                   driver_analyses, search, validated, scored,
                   calls, failed_slots, result, error>>
    /\ UNCHANGED <<rateVars, scoreVars, botVars, gateVars, guardVars, renderVars>>

\* a validate_one without `if not signals: return None`
ValidateOneKeepsAll(n) == [st |-> "done", signals |-> n]

\* validate_one once its call has returned n signals (lines 448-460): None if
\* there is none, else a ScoredDriver
ValidateOne(n) == [st |-> IF n = 0 THEN "none" ELSE "done", signals |-> n]

\* the evidence call of survivor k returns n signals
EvidenceReturn(k) ==
    /\ pc = "evidence"
    /\ evidence[k].st = "running"
    /\ \E n \in SignalCounts :
         evidence' = [evidence EXCEPT ![k] = ValidateOne(n)]
    /\ UNCHANGED <<pc, num_drivers_to_return, candidates, filtered, analysis,
                   driver_analyses, search, validated, scored,
                   calls, failed_slots, result, error>>
    /\ UNCHANGED <<rateVars, scoreVars, botVars, gateVars, guardVars, renderVars>>

\* lines 451-460: the placeholders of a new ScoredDriver
ScoredDriver(v, signals) ==
    [name |-> candidates[v.cand + 1].name, cand |-> v.cand, slot |-> v.slot,
     signals |-> signals, direction_of_pressure |-> "",
     strength |-> "moderate", uncertainty |-> ""]

\* every validate_one has resolved: with a driver left the scoring call is
\* issued, else [] is returned all the way up
EvidenceBatchDone ==
    /\ pc = "evidence"
    /\ BatchResolved(evidence)
    /\ LET ok == NotNone(evidence, 1)
       IN /\ scored' = [n \in DOMAIN ok |->
                          ScoredDriver(validated[ok[n]], evidence[ok[n]].signals)]
          /\ IF ok = <<>>
             THEN /\ pc' = "returned"
                  /\ calls' = calls
             ELSE /\ pc' = "score"
                  /\ calls' = Issue("score", 1)
    /\ evidence' = <<>>
    /\ UNCHANGED <<num_drivers_to_return, candidates, filtered, analysis,
                   driver_analyses, search, validated, failed_slots,
                   result, error>>
    /\ UNCHANGED <<rateVars, scoreVars, botVars, gateVars, guardVars, renderVars>>

\* ----------------------------------------------------------------- phase 5
DriverAssessment ==
    [index : (-1)..MaxSel, direction_of_pressure : {"up"},
     strength : {"weak", "strong"}, uncertainty : {"low"}]
AssessmentLists == SeqsUpTo(DriverAssessment, MaxSel)
SelectionLists == SeqsUpTo((-1)..MaxSel, MaxSel)

\* the loop of lines 511-516 without the test 0 <= assessment.index: a
\* negative index counts from the end of the list
RECURSIVE ApplyAssessmentsWrapping(_, _)
ApplyAssessmentsWrapping(drivers, assessments) ==
    IF assessments = <<>> THEN drivers
    ELSE LET a == Head(assessments)
             at == IF a.index >= 0 THEN a.index + 1
                   ELSE Len(drivers) + a.index + 1
             next == IF a.index < Len(drivers) /\ at >= 1
                     THEN [drivers EXCEPT ![at] =
                             [@ EXCEPT !.direction_of_pressure = a.direction_of_pressure,
                                       !.strength = a.strength,
                                       !.uncertainty = a.uncertainty]]
                     ELSE drivers
         IN ApplyAssessmentsWrapping(next, Tail(assessments))

\* lines 511-516, one assessment after the other
RECURSIVE ApplyAssessments(_, _)
ApplyAssessments(drivers, assessments) ==
    IF assessments = <<>> THEN drivers
    ELSE LET a == Head(assessments)
             next == IF 0 <= a.index /\ a.index < Len(drivers)
                     THEN [drivers EXCEPT ![a.index + 1] =
                             [@ EXCEPT !.direction_of_pressure = a.direction_of_pressure,
                                       !.strength = a.strength,
                                       !.uncertainty = a.uncertainty]]
                     ELSE drivers
         IN ApplyAssessments(next, Tail(assessments))

\* the scoring call raises: the await at line 507 is not guarded
ScoreFail ==
    /\ pc = "score"
    /\ Raise("score")
    /\ UNCHANGED <<num_drivers_to_return, candidates, filtered, analysis,
                   driver_analyses, search, validated, evidence,
                   scored, calls, failed_slots, result>>
    /\ UNCHANGED <<rateVars, scoreVars, botVars, gateVars, guardVars, renderVars>>

\* the scoring call returns; research_drivers returns the drivers unless
\* there are more than num_drivers_to_return: then _final_selection is called
ScoreReturn ==
    /\ pc = "score"
    /\ \E assessments \in AssessmentLists :
         scored' = ApplyAssessments(scored, assessments)
    /\ IF Len(scored) > num_drivers_to_return
       THEN /\ pc' = "final_selection"
            /\ calls' = Issue("final_selection", 1)
            /\ result' = result
       ELSE /\ pc' = "returned"
            /\ calls' = calls
            /\ result' = scored'
    /\ UNCHANGED <<num_drivers_to_return, candidates, filtered, analysis,
                   driver_analyses, search, validated, evidence,
                   failed_slots, error>>
    /\ UNCHANGED <<rateVars, scoreVars, botVars, gateVars, guardVars, renderVars>>

\* a selection cut to the number of drivers asked for
FinalSelectionTruncated(drivers, indices) ==
    LET kept == SelectInRange(indices, Len(drivers))
        cut == SubSeq(kept, 1, IF Len(kept) < num_drivers_to_return
                                THEN Len(kept) ELSE num_drivers_to_return)
    IN [n \in DOMAIN cut |-> drivers[cut[n] + 1]]

\* [drivers[i] for i in indices if 0 <= i < len(drivers)]   (line 548)
FinalSelection(drivers, indices) ==
    LET kept == SelectInRange(indices, Len(drivers))
    IN [n \in DOMAIN kept |-> drivers[kept[n] + 1]]

\* the final-selection call raises: the await at line 547 is not guarded
FinalSelectionFail ==
    /\ pc = "final_selection"
    /\ Raise("final_selection")
    /\ UNCHANGED <<num_drivers_to_return, candidates, filtered, analysis,
                   driver_analyses, search, validated, evidence,
                   scored, calls, failed_slots, result>>
    /\ UNCHANGED <<rateVars, scoreVars, botVars, gateVars, guardVars, renderVars>>

\* the final-selection call returns indices; research_drivers returns
FinalSelectionReturn ==
    /\ pc = "final_selection"
    /\ \E indices \in SelectionLists :
         result' = FinalSelection(scored, indices)
    /\ pc' = "returned"
    /\ UNCHANGED <<num_drivers_to_return, candidates, filtered, analysis,
                   driver_analyses, search, validated, evidence,
                   scored, calls, failed_slots, error>>
    /\ UNCHANGED <<rateVars, scoreVars, botVars, gateVars, guardVars, renderVars>>

\* ------------------------------------------- phase 3b under the rate limit
\* A batch of rl_total search_precondition coroutines wrapped by
\* wrap_coroutines_with_rate_limit(coroutines, 300, 60): a wrapped coroutine
\* starts its task only when the limiter admits it.  rl_window[a] is the number
\* of tasks started a seconds ago.
MaxSearchTasks == 302     \* largest batch of search tasks

RECURSIVE SumTo(_, _)
SumTo(f, a) == IF a < 0 THEN 0 ELSE f[a] + SumTo(f, a - 1)

\* tasks started within the last TIME_PERIOD_IN_SECONDS seconds
InWindow == SumTo(rl_window, TIME_PERIOD_IN_SECONDS - 1)

\* how many further tasks the limiter admits now
Admissible == Max(CALLS_PER_PERIOD - InWindow, 0)

Min(a, b) == IF a <= b THEN a ELSE b

RateInit ==
    /\ num_drivers_to_return = 1
    /\ PipelineIdle
    /\ rl_total \in {1, CALLS_PER_PERIOD, MaxSearchTasks}
    /\ rl_waiting = rl_total
    /\ rl_window = [a \in Ages |-> 0]
    /\ ScoreIdle
    /\ BotIdle
    /\ GateIdle
    /\ GuardIdle
    /\ RenderIdle

\* waiting tasks reach the limiter, all of them or a group of half the limit,
\* and those it admits start
RateAdmit ==
    /\ rl_waiting > 0
    /\ Admissible > 0
    /\ \E arrived \in {rl_waiting, Min(rl_waiting, CALLS_PER_PERIOD \div 2)} :
         /\ rl_waiting' = rl_waiting - Min(arrived, Admissible)
         /\ rl_window' = [rl_window EXCEPT ![0] = @ + Min(arrived, Admissible)]
    /\ UNCHANGED <<rl_total, pipelineVars, scoreVars, botVars, gateVars, guardVars, renderVars>>

\* a second passes: every start is one second older, the oldest leave the window
RateTick ==
    /\ rl_window' = [a \in Ages |-> IF a = 0 THEN 0 ELSE rl_window[a - 1]]
    /\ UNCHANGED <<rl_total, rl_waiting, pipelineVars, scoreVars, botVars, gateVars, guardVars, renderVars>>

RateNext ==
    \/ RateAdmit
    \/ RateTick

SpecRate == RateInit /\ [][RateNext]_vars

\* time passes, and the event loop runs a task the limiter admits
SpecRateFair == SpecRate /\ WF_vars(RateTick) /\ WF_vars(RateAdmit)

\* ------------------------------------------- the combined_score expression
\* One evaluation of lines 346-397 for one candidate: its relevance (in
\* percent), the timescale_plausibility text of its dominance scenario and
\* the number of its preconditions, of the favorable and of the cited ones.
ScoreRelevances == {0, 30, 100}
ScoreLabels == {"high", "medium", "low", "very_low", "unknown"}
MaxScored == 4

ScoreInit ==
    /\ num_drivers_to_return = 1
    /\ PipelineIdle
    /\ RateIdle
    /\ BotIdle
    /\ GateIdle
    /\ GuardIdle
    /\ RenderIdle
    /\ scoring \in {sc \in [initial_relevance : ScoreRelevances,
                            timescale_plausibility : ScoreLabels,
                            len : 0..MaxScored,
                            favorable_count : 0..MaxScored,
                            cited_count : 0..MaxScored,
                            done : {FALSE},
                            alignment_score : {FloatZero},
                            emergence_strength : {""},
                            combined_score : {FloatZero}] :
                       sc.favorable_count <= sc.len /\ sc.cited_count <= sc.len}

\* combined_score of the candidate sc, its alignment being that of `favorable`
\* favorable preconditions
ScoreWith(sc, favorable) ==
    CombinedScoreOf(RelevanceOf(sc.initial_relevance),
                    AlignmentOf(favorable, sc.len),
                    PlausibilityScore(sc.timescale_plausibility),
                    EvidenceQualityOf(sc.cited_count, sc.len))

\* the loop body of lines 348-398 for one candidate
Score ==
    /\ ~scoring.done
    /\ scoring' = [scoring EXCEPT !.done = TRUE,
                                  !.alignment_score =
                                      AlignmentOf(scoring.favorable_count, scoring.len),
                                  !.emergence_strength =
                                      EmergenceStrength(
                                          AlignmentOf(scoring.favorable_count, scoring.len)),
                                  !.combined_score =
                                      ScoreWith(scoring, scoring.favorable_count)]
    /\ UNCHANGED <<pipelineVars, rateVars, botVars, gateVars, guardVars, renderVars>>

SpecScore == ScoreInit /\ [][Score]_vars

\* ------------------------------------------------- DriversBot.run_research
\* A text is a sequence of pieces.  A stream's outcome is "raised", "empty"
\* (it returned an empty list) or "some" (it returned a non-empty list).
DRIVERS_HEADER == "## STEEP Driver Analysis\n"
KEY_FACTORS_HEADER == "## Key Factors\n"
BASE_RATES_HEADER == "## Base Rate Analysis\n"
Headers == {DRIVERS_HEADER, KEY_FACTORS_HEADER, BASE_RATES_HEADER}

StreamOutcomes == {"raised", "empty", "some"}

\* the texts get_formatted_news_async may return
NewsTexts == {<<>>, <<"news">>}

\* ScoredDriver.turn_drivers_into_markdown
DriversMarkdown(outcome) ==
    IF outcome = "empty" THEN <<"No drivers identified.">> ELSE <<"- driver">>

\* ScoredKeyFactor.turn_key_factors_into_markdown_list
KeyFactorsMarkdown(outcome) == <<"- key factor">>

\* BaseRateEstimate.format_as_markdown
BaseRatesMarkdown(outcome) ==
    IF outcome = "empty" THEN <<"No base rates identified.">> ELSE <<"- base rate">>

\* a drivers section rendered whatever the stream's outcome
DriversSectionAlways(outcome) ==
    <<DRIVERS_HEADER>> \o DriversMarkdown(outcome) \o <<"\n\n">>

\* lines 159-171
DriversSection(outcome) ==
    IF outcome = "raised" THEN <<>>
    ELSE <<DRIVERS_HEADER>> \o DriversMarkdown(outcome) \o <<"\n\n">>

\* lines 174-189
KeyFactorsSection(outcome) ==
    IF outcome = "raised" THEN <<>>
    ELSE IF outcome = "some"
    THEN <<KEY_FACTORS_HEADER>> \o KeyFactorsMarkdown(outcome) \o <<"\n\n">>
    ELSE <<>>

\* lines 192-205
BaseRatesSection(outcome) ==
    IF outcome = "raised" THEN <<>>
    ELSE IF outcome = "some"
    THEN <<BASE_RATES_HEADER>> \o BaseRatesMarkdown(outcome) \o <<"\n\n">>
    ELSE <<>>

\* the sections put together in the order the streams completed
RECURSIVE SectionsAsCompleted(_, _)
SectionsAsCompleted(res, order) ==
    IF order = <<>> THEN <<>>
    ELSE (CASE Head(order) = "drivers" -> DriversSection(res["drivers"])
            [] Head(order) = "key_factors" -> KeyFactorsSection(res["key_factors"])
            [] Head(order) = "base_rates" -> BaseRatesSection(res["base_rates"]))
         \o SectionsAsCompleted(res, Tail(order))

ResearchAsCompleted(res, news_section) ==
    SectionsAsCompleted(res, finished) \o news_section

\* lines 216-221
Research(res, news_section) ==
    DriversSection(res["drivers"]) \o KeyFactorsSection(res["key_factors"])
        \o BaseRatesSection(res["base_rates"]) \o news_section

\* a gather without return_exceptions
ReturnExceptionsOff == FALSE

\* return_exceptions=True (line 155)
ReturnExceptions == TRUE

\* a raising task that takes the tasks still pending down with it
RaisedCancellingOthers(res, s) ==
    [t \in DOMAIN res |-> IF t = s \/ res[t] = "pending" THEN "raised" ELSE res[t]]

\* the outcomes gather holds once the task of stream s has raised: the
\* exception is kept as the result of s, the other tasks go on
Raised(res, s) == [res EXCEPT ![s] = "raised"]

\* run_research up to the await of gather: the three tasks are launched
\* the gate's value after an acquire
Acquired(value) == value - 1

\* a normal exit that keeps its slot
HeldAfterReturn(value) == value

\* the gate's value after the release of a normal exit
Released(value) == value + 1

\* an exit by exception that keeps its slot
LeakedOnRaise(value) == value

\* the gate's value after the release of an exit by exception
ReleasedOnRaise(value) == value + 1

\* run_research is called and enters the async with (line 141): it takes a
\* slot of the gate and launches the three streams
CallRunResearch ==
    /\ bot_pc = "start"
    /\ gate_value > 0
    /\ gate_value' = Acquired(gate_value)
    /\ bot_pc' = "gather"
    /\ UNCHANGED <<results, finished, news, research>>
    /\ UNCHANGED <<gate_capacity, call_pc>>
    /\ UNCHANGED <<pipelineVars, rateVars, scoreVars, guardVars, renderVars>>

\* the task of stream s raises
StreamRaise(s) ==
    /\ bot_pc = "gather"
    /\ results[s] = "pending"
    /\ results' = Raised(results, s)
    /\ finished' = Append(finished, s)
    /\ bot_pc' = IF ReturnExceptions THEN bot_pc ELSE "raised"
    /\ gate_value' = IF ReturnExceptions THEN gate_value
                     ELSE ReleasedOnRaise(gate_value)
    /\ UNCHANGED <<news, research>>
    /\ UNCHANGED <<gate_capacity, call_pc>>
    /\ UNCHANGED <<pipelineVars, rateVars, scoreVars, guardVars, renderVars>>

\* the task of stream s returns a list
StreamReturn(s) ==
    /\ bot_pc = "gather"
    /\ results[s] = "pending"
    /\ \E outcome \in {"empty", "some"} :
         results' = [results EXCEPT ![s] = outcome]
    /\ finished' = Append(finished, s)
    /\ UNCHANGED <<bot_pc, news, research>>
    /\ UNCHANGED <<pipelineVars, rateVars, scoreVars, gateVars, guardVars, renderVars>>

\* a news fetch issued as soon as one stream has resolved
GatherReturnsOnFirst ==
    /\ bot_pc = "gather"
    /\ \E s \in DOMAIN results : results[s] # "pending"
    /\ bot_pc' = "news"
    /\ news' = [news EXCEPT !.st = "fetching"]
    /\ UNCHANGED <<results, finished, research>>
    /\ UNCHANGED <<pipelineVars, rateVars, scoreVars, gateVars, guardVars, renderVars>>

\* gather returns: the three sections are built and the news fetch is issued
\* (line 210)
GatherReturn ==
    /\ bot_pc = "gather"
    /\ \A s \in DOMAIN results : results[s] # "pending"
    /\ bot_pc' = "news"
    /\ news' = [news EXCEPT !.st = "fetching"]
    /\ UNCHANGED <<results, finished, research>>
    /\ UNCHANGED <<pipelineVars, rateVars, scoreVars, gateVars, guardVars, renderVars>>

\* the news fetch raises an Exception: news_section stays ""  (lines 208-214)
NewsFail ==
    /\ bot_pc = "news"
    /\ news' = [st |-> "raised", text |-> <<>>]
    /\ research' = Research(results, <<>>)
    /\ bot_pc' = "returned"
    /\ gate_value' = Released(gate_value)
    /\ UNCHANGED <<results, finished>>
    /\ UNCHANGED <<gate_capacity, call_pc>>
    /\ UNCHANGED <<pipelineVars, rateVars, scoreVars, guardVars, renderVars>>

\* the news fetch returns a text
NewsReturn ==
    /\ bot_pc = "news"
    /\ \E text \in NewsTexts :
         /\ news' = [st |-> "ok", text |-> text]
         /\ research' = Research(results, text)
    /\ bot_pc' = "returned"
    /\ gate_value' = Released(gate_value)
    /\ UNCHANGED <<results, finished>>
    /\ UNCHANGED <<gate_capacity, call_pc>>
    /\ UNCHANGED <<pipelineVars, rateVars, scoreVars, guardVars, renderVars>>

BotInit ==
    /\ num_drivers_to_return = 1
    /\ PipelineIdle
    /\ RateIdle
    /\ ScoreIdle
    /\ BotIdle
    /\ GateIdle
    /\ GuardIdle
    /\ RenderIdle

BotNext ==
    \/ CallRunResearch
    \/ \E s \in Range(Streams) : StreamRaise(s)
    \/ \E s \in Range(Streams) : StreamReturn(s)
    \/ GatherReturn
    \/ NewsFail
    \/ NewsReturn

SpecBot == BotInit /\ [][BotNext]_vars

\* ------------------------------------ the gate around run_research
\* Several calls of run_research share _concurrency_limiter, a counting
\* semaphore.  A call is "idle" (not made), "waiting" (suspended in the
\* entry of the async with), "gather" (its three streams are running),
\* "news" (it awaits the news fetch), "returned" or "raised".

\* the positions in which the body of the async with is executing
InBody == {"gather", "news"}

\* run_research is called: the entry of the async with finds a free slot
\* and takes it, or suspends the call (line 141)
CallEnters(c) ==
    /\ call_pc[c] = "idle"
    /\ IF gate_value > 0
       THEN /\ gate_value' = Acquired(gate_value)
            /\ call_pc' = [call_pc EXCEPT ![c] = "gather"]
       ELSE /\ call_pc' = [call_pc EXCEPT ![c] = "waiting"]
            /\ UNCHANGED gate_value
    /\ UNCHANGED gate_capacity
    /\ UNCHANGED <<pipelineVars, rateVars, scoreVars, botVars, guardVars, renderVars>>

\* a suspended call is woken with a slot free and takes it
CallAdmitted(c) ==
    /\ call_pc[c] = "waiting"
    /\ gate_value > 0
    /\ gate_value' = Acquired(gate_value)
    /\ call_pc' = [call_pc EXCEPT ![c] = "gather"]
    /\ UNCHANGED gate_capacity
    /\ UNCHANGED <<pipelineVars, rateVars, scoreVars, botVars, guardVars, renderVars>>

\* gather returns and the news fetch is awaited (lines 151-212)
CallGathered(c) ==
    /\ call_pc[c] = "gather"
    /\ call_pc' = [call_pc EXCEPT ![c] = "news"]
    /\ UNCHANGED <<gate_capacity, gate_value>>
    /\ UNCHANGED <<pipelineVars, rateVars, scoreVars, botVars, guardVars, renderVars>>

\* the report is returned: the async with is left normally (lines 216-225)
CallReturns(c) ==
    /\ call_pc[c] = "news"
    /\ call_pc' = [call_pc EXCEPT ![c] = "returned"]
    /\ gate_value' = Released(gate_value)
    /\ UNCHANGED gate_capacity
    /\ UNCHANGED <<pipelineVars, rateVars, scoreVars, botVars, guardVars, renderVars>>

\* an exception leaves the call at one of its awaits (the call is
\* cancelled, or the news fetch raises what except Exception lets through):
\* inside the body the async with releases the slot, in the entry no slot
\* was taken
CallRaises(c) ==
    /\ call_pc[c] \in InBody \cup {"waiting"}
    /\ call_pc' = [call_pc EXCEPT ![c] = "raised"]
    /\ gate_value' = IF call_pc[c] \in InBody THEN ReleasedOnRaise(gate_value)
                     ELSE gate_value
    /\ UNCHANGED gate_capacity
    /\ UNCHANGED <<pipelineVars, rateVars, scoreVars, botVars, guardVars, renderVars>>

GateInit ==
    /\ num_drivers_to_return = 1
    /\ PipelineIdle
    /\ RateIdle
    /\ ScoreIdle
    /\ BotIdle
    /\ gate_capacity \in 1..MaxCapacity
    /\ gate_value = gate_capacity
    /\ call_pc = [c \in Callers |-> "idle"]
    /\ GuardIdle
    /\ RenderIdle

GateNext ==
    \/ \E c \in Callers : CallEnters(c)
    \/ \E c \in Callers : CallAdmitted(c)
    \/ \E c \in Callers : CallGathered(c)
    \/ \E c \in Callers : CallReturns(c)
    \/ \E c \in Callers : CallRaises(c)

SpecGate == GateInit /\ [][GateNext]_vars

\* ------------------------------- DriversBot._aggregate_predictions
\* A probability is given in hundredths and a percentile value in tenths: the
\* float is the one the decimal literal denotes.  A percentile key is given
\* in percent.  A declared percentile is [percentile |-> key, value |-> v].
MaxHistory == 2

Hundredths == {0, 1, 10, 30, 50, 60, 65, 80, 99, 100}
Tenths == {0, 3, 9, 10}
PercentileKeys == {25, 50, 75}
Bounds == {0, 1, 2}

Probability(h) == FloatOfRatio(h, 100)
ValueOf(t) == FloatOfRatio(t, 10)

MAX_BINARY_DRIFT == FloatOfRatio(15, 100)
MAX_NUMERIC_DRIFT == FloatOfRatio(15, 100)
NEW_WEIGHT == FloatOfRatio(6, 10)

\* 1 - NEW_WEIGHT
OneMinusNewWeight == FloatAbsDiff(FloatOfRatio(1, 1), NEW_WEIGHT)

\* NEW_WEIGHT * new + (1 - NEW_WEIGHT) * previous
Blend(new, previous) ==
    FloatAdd(FloatMul(NEW_WEIGHT, new), FloatMul(OneMinusNewWeight, previous))

\* max(x, y) and min(x, y) of Python: the first argument unless the second
\* is strictly larger (smaller)
FloatMax(x, y) == IF FloatGT(y, x) THEN y ELSE x
FloatMin(x, y) == IF FloatGT(x, y) THEN y ELSE x

\* a clamp to [0.1, 0.9]
ClampTight(aggregate) ==
    FloatMax(FloatOfRatio(1, 10), FloatMin(FloatOfRatio(9, 10), aggregate))

\* max(0.001, min(0.999, aggregate))
Clamp(aggregate) ==
    FloatMax(FloatOfRatio(1, 1000), FloatMin(FloatOfRatio(999, 1000), aggregate))

\* a guard that never takes the early return
NoHistoryNever(given, history) == FALSE

\* not question.previous_forecasts: None or an empty list
NoHistory(given, history) == ~given \/ history = <<>>

\* the first entry of the history
Earliest(history) == history[1]

\* question.previous_forecasts[-1]
Latest(history) == history[Len(history)]

\* lines 69-79
BinaryGuard(aggregate, previous) ==
    LET drift == FloatAbsDiff(aggregate, previous)
    IN IF FloatGT(drift, MAX_BINARY_DRIFT)
       THEN Clamp(Blend(aggregate, previous))
       ELSE aggregate

\* the blended probability for every pair of probabilities of the model
BinaryGuardTable ==
    [n \in Hundredths, p \in Hundredths |->
        BinaryGuard(Probability(n), Probability(p))]

\* the keys of {p.percentile: p.value for p in declared}
KeysOf(declared) == {declared[i].percentile : i \in DOMAIN declared}

\* the value the dict holds under key q: the last one declared
ValueAt(declared, q) ==
    declared[CHOOSE i \in DOMAIN declared :
                 /\ declared[i].percentile = q
                 /\ \A j \in DOMAIN declared :
                        declared[j].percentile = q => j <= i].value

\* sorted(set)
RECURSIVE Sorted(_)
Sorted(set) ==
    IF set = {} THEN <<>>
    ELSE LET least == CHOOSE x \in set : \A y \in set : x <= y
         IN <<least>> \o Sorted(set \ {least})

\* sorted(set(prev_percentiles.keys()) & set(new_percentiles.keys()))
CommonPoints(prev, new) == Sorted(KeysOf(prev) \cap KeysOf(new))

\* common_points[len(common_points) // 2]
MidPct(common_points) == common_points[Len(common_points) \div 2 + 1]

\* abs(new_median - prev_median) / range_span
RelativeDrift(new_median, prev_median, range_span) ==
    FloatOverInt(FloatAbsDiff(ValueOf(new_median), ValueOf(prev_median)), range_span)

\* the relative drift for every pair of values and every span of the model
RelativeDriftTable ==
    [n \in Tenths, p \in Tenths, span \in {b \in Bounds : b > 0} |->
        RelativeDrift(n, p, span)]

\* the blend for every pair of values of the model
BlendTable == [n \in Tenths, p \in Tenths |-> Blend(ValueOf(n), ValueOf(p))]

\* the declared percentiles as they are, with their float values
Floats(declared) ==
    [i \in DOMAIN declared |->
        [percentile |-> declared[i].percentile, value |-> ValueOf(declared[i].value)]]

\* lines 105-118: prev_percentiles.get(p.percentile, p.value)
Blended(new, prev) ==
    [i \in DOMAIN new |->
        [percentile |-> new[i].percentile,
         value |-> BlendTable[new[i].value,
                              IF new[i].percentile \in KeysOf(prev)
                              THEN ValueAt(prev, new[i].percentile)
                              ELSE new[i].value]]]

\* the values of the list never go down
NonDecreasing(declared) ==
    \A i \in 1..(Len(declared) - 1) :
        FloatGE(declared[i + 1].value, declared[i].value)

\* the constructor of NumericDistribution given the blended list
Rejected(declared) == ~NonDecreasing(declared)

\* lines 81-136: whether the blend is taken
Dampened(new, prev, lower_bound, upper_bound) ==
    LET common_points == CommonPoints(prev, new)
        range_span == upper_bound - lower_bound
    IN /\ common_points # <<>>
       /\ range_span > 0
       /\ FloatGT(RelativeDriftTable[ValueAt(new, MidPct(common_points)),
                                     ValueAt(prev, MidPct(common_points)),
                                     range_span],
                  MAX_NUMERIC_DRIFT)

NumericGuard(new, prev, lower_bound, upper_bound) ==
    IF Dampened(new, prev, lower_bound, upper_bound)
    THEN Blended(new, prev)
    ELSE Floats(new)

\* the binary branch given the history of the question
BinaryResult(aggregate, history) == BinaryGuardTable[aggregate, Latest(history)]

\* the numeric branch given the history of the question
NumericResult(aggregate, history, lower_bound, upper_bound) ==
    NumericGuard(aggregate, Latest(history), lower_bound, upper_bound)

\* lines 58-138
AggregatePredictions ==
    /\ ~guard.done
    /\ guard' =
         IF NoHistory(guard.given, IF guard.kind = "binary" THEN guard.binary_history ELSE guard.numeric_history)
         THEN [guard EXCEPT !.done = TRUE,
                            !.binary_out = Probability(guard.binary_aggregate),
                            !.numeric_out = Floats(guard.numeric_aggregate)]
         ELSE IF guard.kind = "binary"
         THEN IF guard.binary_history = <<>>
              THEN [guard EXCEPT !.done = TRUE, !.raised = TRUE]
              ELSE [guard EXCEPT !.done = TRUE,
                                 !.binary_out =
                                     BinaryResult(guard.binary_aggregate,
                                                  guard.binary_history)]
         ELSE IF guard.numeric_history = <<>>
              THEN [guard EXCEPT !.done = TRUE, !.raised = TRUE]
              ELSE LET out == NumericResult(guard.numeric_aggregate,
                                            guard.numeric_history,
                                            guard.lower_bound, guard.upper_bound)
                       blended == Dampened(guard.numeric_aggregate,
                                           Latest(guard.numeric_history),
                                           guard.lower_bound, guard.upper_bound)
                   IN [guard EXCEPT !.done = TRUE,
                                    !.raised = blended /\ Rejected(out),
                                    !.numeric_out = out]
    /\ UNCHANGED <<pipelineVars, rateVars, scoreVars, botVars, gateVars, renderVars>>

\* the lists of declared percentiles whose values go up with the percentile
Increasing(f) == \A q, r \in DOMAIN f : q < r => f[q] < f[r]

ListOf(f) ==
    [i \in 1..Cardinality(DOMAIN f) |->
        [percentile |-> Sorted(DOMAIN f)[i], value |-> f[Sorted(DOMAIN f)[i]]]]

Declared ==
    {ListOf(f) : f \in {h \in UNION {[K -> Tenths] : K \in SUBSET PercentileKeys \ {{}}} :
                            Increasing(h)}}

\* the earlier entries of a numeric history
EarlierDeclared == {<<[percentile |-> 50, value |-> 3]>>}

BinaryCases ==
    {[NoGuard EXCEPT !.given = given, !.binary_history = history,
                     !.binary_aggregate = aggregate] :
        given \in BOOLEAN, aggregate \in Hundredths,
        history \in SeqsUpTo(Hundredths, MaxHistory)}

NumericCases ==
    {[NoGuard EXCEPT !.kind = "numeric", !.given = given,
                     !.numeric_history = history, !.numeric_aggregate = aggregate,
                     !.upper_bound = upper_bound] :
        given \in BOOLEAN, aggregate \in Declared, upper_bound \in Bounds,
        history \in {<<>>} \cup {Append(q, x) : q \in SeqsUpTo(EarlierDeclared, MaxHistory - 1), x \in Declared}}

GuardInit ==
    /\ num_drivers_to_return = 1
    /\ PipelineIdle
    /\ RateIdle
    /\ ScoreIdle
    /\ BotIdle
    /\ GateIdle
    /\ RenderIdle
    /\ guard \in {c \in BinaryCases \cup NumericCases :
                     c.given \/ (c.binary_history = <<>> /\ c.numeric_history = <<>>)}

SpecGuard == GuardInit /\ [][AggregatePredictions]_vars

\* -------------------------------------------------------------- rendering
\* A text is a sequence of pieces; a line break is the piece "\n" and the
\* texts of the fields hold none.
MaxRendered == 2

\* the ScoredDriver values rendered
RenderedDrivers ==
    {[name |-> "a", category |-> "social", mechanism |-> "m1",
      directionality |-> "stable", signals |-> <<"s1">>,
      direction_of_pressure |-> "up", strength |-> "weak"],
     [name |-> "b", category |-> "economic", mechanism |-> "m2",
      directionality |-> "unclear", signals |-> <<"s1", "s2", "s3">>,
      direction_of_pressure |-> "down", strength |-> "strong"],
     [name |-> "c", category |-> "political", mechanism |-> "m3",
      directionality |-> "accelerating", signals |-> <<>>,
      direction_of_pressure |-> "", strength |-> "moderate"]}

\* the BaseRateEstimate values rendered, historical_rate in hundredths
RenderedBaseRates ==
    {[reference_class |-> "r1", time_period |-> "1976-2025", numerator |-> 1,
      denominator |-> 4, historical_rate |-> 25, relevance_reasoning |-> "why1"],
     [reference_class |-> "r2", time_period |-> "2000-2020", numerator |-> 0,
      denominator |-> 3, historical_rate |-> 0, relevance_reasoning |-> "why2"],
     [reference_class |-> "r3", time_period |-> "1990-2000", numerator |-> 2,
      denominator |-> 2, historical_rate |-> 100, relevance_reasoning |-> "why3"]}

\* str.title() of the category values
Title(category) ==
    CASE category = "social" -> "Social"
      [] category = "technological" -> "Technological"
      [] category = "economic" -> "Economic"
      [] category = "environmental" -> "Environmental"
      [] category = "political" -> "Political"

\* separator.join(texts), for a sequence of texts
RECURSIVE Join(_, _)
Join(separator, texts) ==
    IF texts = <<>> THEN <<>>
    ELSE IF Len(texts) = 1 THEN texts[1]
    ELSE texts[1] \o <<separator>> \o Join(separator, Tail(texts))

\* self.signals[:2]
FirstTwo(signals) == SubSeq(signals, 1, IF Len(signals) < 2 THEN Len(signals) ELSE 2)

\* ScoredDriver.display_text
DisplayText(driver) ==
    <<"**", driver.name, "** [", Title(driver.category), "] (",
      driver.strength, ", ", driver.directionality, "): ",
      driver.mechanism, ". ", driver.direction_of_pressure, ". Evidence: ">>
    \o Join("; ", [i \in DOMAIN FirstTwo(driver.signals) |-> <<FirstTwo(driver.signals)[i]>>])

\* a line without its marker
DriverLineUnmarked(driver) == DisplayText(driver)

\* f"- {driver.display_text}"
DriverLine(driver) == <<"- ">> \o DisplayText(driver)

\* ScoredDriver.turn_drivers_into_markdown
TurnDriversIntoMarkdown(drivers) ==
    IF drivers = <<>> THEN <<"No drivers identified.">>
    ELSE Join("\n", [i \in DOMAIN drivers |-> DriverLine(drivers[i])])

\* the line of one estimate; {est.historical_rate:.0%} of a rate in hundredths
BaseRateLine(est) ==
    <<"- ", "**", est.reference_class, "** (", est.time_period, "): ",
      ToString(est.numerator), "/", ToString(est.denominator), " = ",
      ToString(est.historical_rate), "%", ". ", est.relevance_reasoning>>

\* BaseRateEstimate.format_as_markdown
FormatAsMarkdown(estimates) ==
    IF estimates = <<>> THEN <<"No base rates identified.">>
    ELSE Join("\n", [i \in DOMAIN estimates |-> BaseRateLine(estimates[i])])

\* both lists are rendered
Render ==
    /\ ~render.done
    /\ render' = [render EXCEPT
                     !.done = TRUE,
                     !.drivers_markdown = TurnDriversIntoMarkdown(render.drivers),
                     !.base_rates_markdown = FormatAsMarkdown(render.base_rates)]
    /\ UNCHANGED <<pipelineVars, rateVars, scoreVars, botVars, gateVars, guardVars>>

RenderInit ==
    /\ num_drivers_to_return = 1
    /\ PipelineIdle
    /\ RateIdle
    /\ ScoreIdle
    /\ BotIdle
    /\ GateIdle
    /\ GuardIdle
    /\ render \in {[NoRender EXCEPT !.drivers = drivers, !.base_rates = estimates] :
                      drivers \in SeqsUpTo(RenderedDrivers, MaxRendered),
                      estimates \in SeqsUpTo(RenderedBaseRates, MaxRendered)}

SpecRender == RenderInit /\ [][Render]_vars

Next ==
    \/ CallResearchDrivers
    \/ BroadScanFail
    \/ BroadScanReturn
    \/ FilterFail
    \/ FilterReturn
    \/ \E i \in DOMAIN analysis :
         \/ DominanceFail(i)
         \/ DominanceReturn(i)
         \/ PreconditionsFail(i)
         \/ PreconditionsReturn(i)
    \/ AnalyzeBatchDone
    \/ \E idx \in DOMAIN search : \E j \in DOMAIN search[idx] :
         \/ SearchFail(idx, j)
         \/ SearchReturn(idx, j)
    \/ SearchBatchDone
    \/ \E k \in DOMAIN evidence :
         \/ EvidenceFail(k)
         \/ EvidenceReturn(k)
    \/ EvidenceBatchDone
    \/ ScoreFail
    \/ ScoreReturn
    \/ FinalSelectionFail
    \/ FinalSelectionReturn

Spec == Init /\ [][Next]_vars

\* ------------------------------------------------------------------ claims
OtherCalls(kind) == {k \in CallKinds : k # kind}

\* C1: every list research_drivers returns has at most num_drivers_to_return
\* entries, whatever the generation calls return.
C1_ResultWithinTarget ==
    pc = "returned" => Len(result) <= num_drivers_to_return

\* C2: once the broad scan has succeeded research_drivers never raises: the
\* only failure that leaves it is the broad scan's.
C2_RaisesOnlyAtBroadScan ==
    pc = "raised" => error = "broad_scan"

\* C3: a failed broad scan is fatal: research_drivers fails with that error,
\* the broad scan was issued exactly once and no other call is ever issued.
C3_BroadScanFailureIsFatal ==
    error = "broad_scan" =>
        /\ pc = "raised"
        /\ calls["broad_scan"] = 1
        /\ \A k \in OtherCalls("broad_scan") : calls[k] = 0

C3_Witness == pc = "raised" /\ error = "broad_scan"

BroadScanGaveNone ==
    candidates = <<>> /\ pc \notin {"start", "broad_scan"} /\ error # "broad_scan"

\* C4: when the broad scan returns no candidate, research_drivers returns an
\* empty list and issues no further generation or search call.
C4_NoCallAfterEmptyScan ==
    BroadScanGaveNone =>
        /\ \A k \in OtherCalls("broad_scan") : calls[k] = 0
        /\ pc # "raised"
        /\ pc = "returned" => result = <<>>

AllAnalysesFailed == filtered # <<>> /\ failed_slots = DOMAIN filtered

\* C5: when the analysis of every filtered candidate has failed, or every
\* evidence call has failed, research_drivers returns an empty list without
\* raising, and no candidate whose analysis failed reaches phase 4.
C5_AllFailedGivesEmpty ==
    /\ AllAnalysesFailed =>
         /\ \A k \in DOMAIN validated : validated[k].slot \notin failed_slots
         /\ evidence = <<>>
         /\ pc # "raised"
         /\ pc = "returned" => result = <<>>
    /\ (pc = "returned" /\ scored = <<>>) => result = <<>>

\* C6: a candidate whose dominance or preconditions call failed is absent from
\* the survivor list and from the final result, and every sibling whose two
\* calls succeeded is still searched and scored.
C6_FailedCandidateRemoved ==
    /\ \A k \in DOMAIN validated : validated[k].slot \notin failed_slots
    /\ \A k \in DOMAIN result : result[k].slot \notin failed_slots
    /\ pc = "search" =>
         /\ Range(driver_analyses) = DOMAIN filtered \ failed_slots
         /\ \A n \in DOMAIN ScoredCandidates :
              ScoredCandidates[n].slot = driver_analyses[n]

SearchTaskIds ==
    UNION {{<<idx, j>> : j \in DOMAIN search[idx]} : idx \in DOMAIN search}

SearchedRecord(t) == analysis[driver_analyses[t[1]]].preconditions[t[2]]

\* C7: when the phase-3b batch has resolved every precondition of every
\* analysed candidate has one of the four statuses, and one whose search or
\* classification failed has status absent; the statuses in the returned
\* analyses are set as well.
C7_StatusNeverUnset ==
    (pc = "search" /\ SearchResolved) =>
        /\ \A t \in SearchTaskIds :
             /\ SearchedRecord(t).status \in PreconditionStatus
             /\ search[t[1]][t[2]] = "failed" => SearchedRecord(t).status = "absent"
        /\ \A n \in DOMAIN analyses :
             \A j \in DOMAIN analyses[n].preconditions :
                 analyses[n].preconditions[j].status \in PreconditionStatus

C7_Witness ==
    /\ pc = "search"
    /\ SearchResolved
    /\ \E t, u \in SearchTaskIds :
         /\ search[t[1]][t[2]] = "failed"
         /\ search[u[1]][u[2]] = "ok"
         /\ SearchedRecord(u).status = "emerging"

\* C8: in every rolling 60-second window at most 300 search tasks are started;
\* the tasks beyond the limit wait, and every waiting task is started in the end.
C8_RateLimited ==
    /\ [](InWindow <= 300)
    /\ [][InWindow >= 300 => rl_waiting' >= rl_waiting]_vars
    /\ <>(rl_waiting = 0)

C8_Witness == rl_waiting > 0 /\ InWindow = 300

\* C9: the phases are strictly ordered: a call of a phase is issued only by a
\* step taken when the batch of the phase before had wholly resolved, and the
\* preconditions call of a candidate only by the step in which its dominance
\* call returned.
C9_PhasesOrdered ==
    [][/\ calls'["filter"] > calls["filter"] => pc = "broad_scan"
       /\ calls'["dominance"] > calls["dominance"] => pc = "filter"
       /\ calls'["search"] > calls["search"] =>
            pc = "analyze" /\ BatchResolved(analysis)
       /\ calls'["evidence"] > calls["evidence"] =>
            \/ pc = "search" /\ SearchResolved
            \/ pc = "analyze" /\ BatchResolved(analysis)
       /\ calls'["score"] > calls["score"] =>
            pc = "evidence" /\ BatchResolved(evidence)
       /\ calls'["final_selection"] > calls["final_selection"] => pc = "score"
       /\ calls'["preconditions"] > calls["preconditions"] =>
            \E i \in DOMAIN analysis :
                /\ analysis[i].st = "dominance"
                /\ analysis'[i].st = "preconditions"
                /\ analysis'[i].dominance \in PlausibilityLabels
       /\ \A i \in DOMAIN analysis :
            (i \in DOMAIN analysis' /\ analysis'[i].st = "preconditions") =>
                analysis'[i].dominance \in PlausibilityLabels
      ]_vars

C9_Witness ==
    /\ pc = "score"
    /\ calls["search"] > 0
    /\ failed_slots # {}

\* the preconditions of one driver, recombined with its own search results only
OwnPreconditions(ps) ==
    UpdateWithSearchResults(<<ps>>, [j \in DOMAIN ps |-> <<1, j>>], <<1>>)[1]

\* the analysis and the score of each analysed driver, computed alone, in the
\* order of the candidates
AnalysedAlone ==
    [idx \in DOMAIN driver_analyses |->
        LET slot == driver_analyses[idx]
            ps == OwnPreconditions(analysis[slot].preconditions)
        IN [analysis |-> PreconditionAnalysis(slot, Candidate(slot),
                                              analysis[slot].dominance, ps),
            scored |-> [cand |-> filtered[slot], slot |-> slot,
                        score |-> CombinedScore(Candidate(slot),
                                                analysis[slot].dominance, ps)]]]

\* C10: the survivor list and the analysis list depend on the call outcomes
\* only, not on the order in which the tasks completed: each analysed driver
\* has its own analysis, in candidate order, made of its own preconditions
\* even when another driver has the same name.
C10_RecombinedByIndex ==
    (pc = "search" /\ SearchResolved) =>
        /\ \A a, b \in DOMAIN driver_analyses :
             a < b => driver_analyses[a] < driver_analyses[b]
        /\ analyses = [idx \in DOMAIN AnalysedAlone |-> AnalysedAlone[idx].analysis]
        /\ Validated(ScoredCandidates) =
             Validated([idx \in DOMAIN AnalysedAlone |-> AnalysedAlone[idx].scored])

C10_Witness ==
    /\ pc = "search"
    /\ SearchResolved
    /\ Len(analyses) = 2
    /\ analyses[1].driver_name = analyses[2].driver_name
    /\ analyses[1].precondition_alignment_score
         # analyses[2].precondition_alignment_score
    /\ Len(Validated(ScoredCandidates)) = 1

\* relevance 1.0, plausibility high, every precondition favorable and cited
FullMarks(sc) ==
    /\ sc.initial_relevance = 100
    /\ sc.timescale_plausibility = "high"
    /\ sc.len > 0
    /\ sc.favorable_count = sc.len
    /\ sc.cited_count = sc.len

\* C11: combined_score is 0.30*relevance + 0.40*alignment + 0.20*plausibility
\* + 0.10*evidence_quality with plausibility 0.5 for an unknown label and
\* evidence_quality 0 without preconditions; it does not decrease when the
\* alignment grows, and it is exactly 1.0 for relevance 1.0, alignment 1.0,
\* plausibility high and full evidence.
C11_CombinedScore ==
    scoring.done =>
        /\ scoring.combined_score = ScoreWith(scoring, scoring.favorable_count)
        /\ scoring.timescale_plausibility = "unknown" =>
             PlausibilityScore(scoring.timescale_plausibility) = FloatOfRatio(5, 10)
        /\ scoring.len = 0 =>
             EvidenceQualityOf(scoring.cited_count, scoring.len) = FloatZero
        /\ \A fewer \in 0..scoring.favorable_count :
             FloatGE(scoring.combined_score, ScoreWith(scoring, fewer))
        /\ FullMarks(scoring) => scoring.combined_score = FloatOfRatio(1, 1)

\* the positions of scored_candidates whose score reaches the threshold
AtOrAboveThreshold ==
    {n \in DOMAIN ScoredCandidates :
        FloatGE(ScoredCandidates[n].score, PRECONDITION_THRESHOLD)}

\* C12: when the searches have resolved, the survivor list holds exactly the
\* analysed candidates whose combined_score is >= 0.2, each once, in
\* descending order of combined_score.
C12_SurvivorsAboveThreshold ==
    (pc = "search" /\ SearchResolved) =>
        LET survivors == Validated(ScoredCandidates)
            ScoreAt(k) == ScoredCandidates[
                              CHOOSE n \in DOMAIN ScoredCandidates :
                                  ScoredCandidates[n].slot = survivors[k].slot].score
        IN /\ Len(survivors) = Cardinality(AtOrAboveThreshold)
           /\ {survivors[k].slot : k \in DOMAIN survivors} =
                {ScoredCandidates[n].slot : n \in AtOrAboveThreshold}
           /\ \A k \in DOMAIN survivors :
                survivors[k].cand = filtered[survivors[k].slot]
           /\ \A k, l \in DOMAIN survivors :
                k < l => FloatGE(ScoreAt(k), ScoreAt(l))

\* a later candidate with a higher score comes first, and a score equal to
\* the threshold survives
C12_Witness ==
    /\ pc = "search"
    /\ SearchResolved
    /\ Len(ScoredCandidates) = 2
    /\ Len(Validated(ScoredCandidates)) = 2
    /\ Validated(ScoredCandidates)[1].slot = 2
    /\ ScoredCandidates[1].score = PRECONDITION_THRESHOLD

\* C13: the analysis list has exactly one PreconditionAnalysis per analysed
\* candidate, in candidate order, whether or not the candidate passes the
\* threshold; without input both lists are empty.
C13_OneAnalysisPerAnalysed ==
    /\ (pc = "search" /\ SearchResolved) =>
         /\ Len(analyses) = Len(driver_analyses)
         /\ \A n \in DOMAIN analyses :
              /\ analyses[n].slot = driver_analyses[n]
              /\ analyses[n].driver_name = Candidate(driver_analyses[n]).name
         /\ \A a, b \in DOMAIN analyses : a < b => analyses[a].slot < analyses[b].slot
         /\ Range(driver_analyses) = DOMAIN filtered \ failed_slots
    /\ (filtered = <<>> /\ pc \notin {"start", "broad_scan", "filter"}) =>
         /\ validated = <<>>
         /\ analyses = <<>>
         /\ calls["dominance"] = 0

\* two analysed candidates, one of them below the threshold
C13_Witness ==
    /\ pc = "search"
    /\ SearchResolved
    /\ Len(analyses) = 2
    /\ Len(Validated(ScoredCandidates)) = 1
    /\ Validated(ScoredCandidates)[1].slot = 2

\* the positions of an index list that hold an index of a list of length n
InRangePositions(indices, n) ==
    {p \in DOMAIN indices : 0 <= indices[p] /\ indices[p] < n}

\* kept is made of the in-range indices of the list, in the order of the list
KeptInOrder(indices, n, kept) ==
    /\ Len(kept) = Cardinality(InRangePositions(indices, n))
    /\ \A k \in DOMAIN kept :
         kept[k] = indices[CHOOSE p \in InRangePositions(indices, n) :
                      Cardinality({q \in InRangePositions(indices, n) : q < p})
                          = k - 1]

\* C14: for every index list the filter call may return, the kept list is
\* made of the candidates at the in-range indices, in the order returned;
\* an index < 0 or >= len(candidates) is never used to read the candidates.
C14_FilterKeepsInRange ==
    /\ pc = "filter" =>
         \A indices \in IndexLists :
             KeptInOrder(indices, Len(candidates),
                         FilterKept(indices, candidates))
    /\ \A k \in DOMAIN filtered :
         0 <= filtered[k] /\ filtered[k] < Len(candidates)

\* the filter returned the two candidates in reverse order
C14_Witness ==
    /\ pc = "analyze"
    /\ Len(candidates) = 2
    /\ filtered = <<1, 0>>

\* C15: phase 2 hands at most min(len(candidates), 2 * num_drivers_to_return)
\* candidates to phase 3, whatever index list the filter call returns.
C15_FilterWithinTarget ==
    Len(filtered) <= Min(Len(candidates), 2 * num_drivers_to_return)

\* the evidence tasks that gave a ScoredDriver
Converted == {k \in DOMAIN evidence : evidence[k].st = "done"}

\* the ScoredDriver at position n stems from the survivor of evidence task k
StemsFrom(driver, k) ==
    /\ driver.slot = validated[k].slot
    /\ driver.cand = validated[k].cand
    /\ driver.name = candidates[validated[k].cand + 1].name

\* C16: in phase 4 a candidate whose evidence call fails or gives no signal is
\* dropped without touching the other tasks or raising; every other survivor
\* becomes exactly one ScoredDriver of its own name and fields, in survivor
\* order; every ScoredDriver returned stems from a survivor and has a signal;
\* with every candidate dropped the result is empty and no scoring or
\* final-selection call is issued.
C16_EvidenceDropsOnlyFailures ==
    /\ [](\A n \in DOMAIN result :
             /\ result[n].signals >= 1
             /\ \E k \in DOMAIN validated : StemsFrom(result[n], k))
    /\ [][/\ (pc = "evidence" /\ pc' = "evidence") =>
               \E k \in DOMAIN evidence :
                   /\ evidence[k].st = "running"
                   /\ evidence' = [evidence EXCEPT ![k] = evidence'[k]]
          /\ (pc = "evidence" /\ pc' # "evidence") =>
               /\ BatchResolved(evidence)
               /\ pc' # "raised"
               /\ Len(scored') = Cardinality(Converted)
               /\ \A n \in DOMAIN scored' :
                    \E k \in Converted :
                        /\ Cardinality({q \in Converted : q < k}) = n - 1
                        /\ StemsFrom(scored'[n], k)
                        /\ scored'[n].signals = evidence[k].signals
                        /\ scored'[n].signals >= 1
               /\ Converted = {} =>
                    pc' = "returned" /\ result' = <<>> /\ calls' = calls
         ]_vars

\* the first of two survivors was dropped, the second became a ScoredDriver
C16_Witness ==
    /\ pc = "score"
    /\ Len(validated) = 2
    /\ Len(scored) = 1
    /\ scored[1].slot = validated[2].slot

\* the positions of the assessments of index i
AssessmentsOf(assessments, i) ==
    {p \in DOMAIN assessments : assessments[p].index = i}

SetMax(S) == CHOOSE x \in S : \A y \in S : y <= x

\* out is drivers with, for each driver that has an assessment under its
\* index, the three fields of the last such assessment, and nothing else changed
AppliedByIndex(drivers, assessments, out) ==
    /\ Len(out) = Len(drivers)
    /\ \A k \in DOMAIN drivers :
         IF AssessmentsOf(assessments, k - 1) = {}
         THEN out[k] = drivers[k]
         ELSE LET a == assessments[SetMax(AssessmentsOf(assessments, k - 1))]
              IN out[k] = [drivers[k] EXCEPT
                             !.direction_of_pressure = a.direction_of_pressure,
                             !.strength = a.strength,
                             !.uncertainty = a.uncertainty]

\* C17: the scoring call is issued exactly when there is a ScoredDriver; an
\* assessment with 0 <= index < len(drivers) overwrites the three assessed
\* fields of the driver at that index only, any other assessment is ignored, a
\* driver without assessment keeps the placeholders, and the list keeps its
\* length and order.
C17_ScoringByIndex ==
    /\ [](calls["score"] = IF scored = <<>> THEN 0 ELSE 1)
    /\ [](pc = "score" =>
            /\ \A k \in DOMAIN scored :
                 /\ scored[k].direction_of_pressure = ""
                 /\ scored[k].strength = "moderate"
                 /\ scored[k].uncertainty = ""
            /\ \A assessments \in AssessmentLists :
                 AppliedByIndex(scored, assessments,
                                ApplyAssessments(scored, assessments)))
    /\ [][(pc = "score" /\ pc' \notin {"score", "raised"}) =>
            /\ Len(scored') = Len(scored)
            /\ \A k \in DOMAIN scored :
                 /\ scored'[k].slot = scored[k].slot
                 /\ scored'[k].name = scored[k].name
                 /\ scored'[k].signals = scored[k].signals
         ]_vars

\* of two drivers the first was assessed, the second kept its placeholders
C17_Witness ==
    /\ pc = "final_selection"
    /\ Len(scored) = 2
    /\ scored[1].strength = "strong"
    /\ scored[1].direction_of_pressure = "up"
    /\ scored[2].direction_of_pressure = ""
    /\ scored[2].strength = "moderate"

\* ---------------------------------------------------------------- C18-C20
\* the piece occurs in the text
Contains(text, piece) == \E i \in DOMAIN text : text[i] = piece

\* the text ends with the given text
EndsWith(text, tail) ==
    /\ Len(tail) <= Len(text)
    /\ SubSeq(text, Len(text) - Len(tail) + 1, Len(text)) = tail

AllStreamsRaised == \A s \in DOMAIN results : results[s] = "raised"

\* C18: when the drivers, key factors and base rates streams all raise and
\* the news fetch succeeds, the report run_research returns contains the news
\* text and none of the three section headers.
C18_NewsOnlyReport ==
    (bot_pc = "returned" /\ AllStreamsRaised /\ news.st = "ok")
        => /\ EndsWith(research, news.text)
           /\ \A h \in Headers : ~Contains(research, h)

C18_Witness ==
    /\ bot_pc = "returned"
    /\ AllStreamsRaised
    /\ news = [st |-> "ok", text |-> <<"news">>]
    /\ research = <<"news">>

\* C19: run_research never raises, whatever combination of the four streams
\* succeeds or raises an exception: in every such combination the call can
\* go on to its return, the value returned is the text put together from the
\* sections, and it is the empty string when all four streams fail.
C19_AlwaysReturnsString ==
    /\ bot_pc # "raised"
    /\ (bot_pc = "gather" /\ \A s \in DOMAIN results : results[s] # "pending")
           => ENABLED GatherReturn
    /\ bot_pc = "news" => ENABLED NewsFail /\ ENABLED NewsReturn
    /\ bot_pc = "returned"
           => /\ \A i \in DOMAIN research : research[i] \in STRING
              /\ (AllStreamsRaised /\ news.st = "raised") => research = <<>>

C19_Witness ==
    /\ bot_pc = "returned"
    /\ AllStreamsRaised
    /\ news.st = "raised"
    /\ research = <<>>

\* the header of the stream's section
HeaderOf(s) ==
    CASE s = "drivers" -> DRIVERS_HEADER
      [] s = "key_factors" -> KEY_FACTORS_HEADER
      [] s = "base_rates" -> BASE_RATES_HEADER

\* the outcomes of the stream itself under which its header is rendered
RendersHeader(s, outcome) ==
    IF s = "drivers" THEN outcome # "raised" ELSE outcome = "some"

IsolatedStreams ==
    /\ bot_pc = "gather"
           => \A s \in DOMAIN results : results[s] = "pending"
                  => ENABLED StreamReturn(s) /\ ENABLED StreamRaise(s)
    /\ bot_pc \in {"news", "returned"}
           => \A s \in DOMAIN results : results[s] # "pending"
    /\ bot_pc = "returned"
           => \A s \in DOMAIN results :
                  Contains(research, HeaderOf(s)) <=> RendersHeader(s, results[s])

\* C20: an exception in one gathered stream leaves the other streams as they
\* are (neither cancelled nor blocked: a pending stream can still return or
\* raise), every stream is resolved when gather returns, and a stream's
\* header is in the report exactly under outcomes of that stream alone.
C20_StreamsIsolated ==
    /\ []IsolatedStreams
    /\ [][\A s \in DOMAIN results :
            (results[s] = "pending" /\ results'[s] = "raised")
                => \A t \in DOMAIN results \ {s} : results'[t] = results[t]]_vars

C20_Witness ==
    /\ bot_pc = "returned"
    /\ results = [s \in DOMAIN results |-> IF s = "drivers" THEN "raised" ELSE "some"]
    /\ ~Contains(research, DRIVERS_HEADER)
    /\ Contains(research, KEY_FACTORS_HEADER)
    /\ Contains(research, BASE_RATES_HEADER)


\* -------------------------------------------------------------------- C21
\* C21: for each of the three gathered streams, the header of its section is
\* in the report exactly when the stream returned a non-empty list; a stream
\* that returned an empty list, or raised, contributes no header.
C21_SectionIffNonEmpty ==
    bot_pc = "returned"
        => \A s \in DOMAIN results :
               Contains(research, HeaderOf(s)) <=> results[s] = "some"


\* -------------------------------------------------------------------- C22
\* the section of a stream, "" when the section is omitted
SectionOf(s) ==
    CASE s = "drivers" -> DriversSection(results[s])
      [] s = "key_factors" -> KeyFactorsSection(results[s])
      [] s = "base_rates" -> BaseRatesSection(results[s])

\* C22: the report returned is the drivers section, then the key-factors
\* section, then the base-rate section, then the news text, whatever the
\* order in which the three streams completed; an omitted section
\* contributes the empty text.
C22_OrderedConcatenation ==
    bot_pc = "returned"
        => research = SectionOf("drivers") \o SectionOf("key_factors")
                          \o SectionOf("base_rates") \o news.text

C22_Witness ==
    /\ bot_pc = "returned"
    /\ finished = <<"base_rates", "key_factors", "drivers">>
    /\ \A s \in DOMAIN results : results[s] = "some"
    /\ news.text = <<"news">>
    /\ research = <<DRIVERS_HEADER, "- driver", "\n\n",
                    KEY_FACTORS_HEADER, "- key factor", "\n\n",
                    BASE_RATES_HEADER, "- base rate", "\n\n", "news">>


\* -------------------------------------------------------------------- C23
\* the calls whose body is executing
Executing == {c \in Callers : call_pc[c] \in InBody}

CallsFinished == \A c \in Callers : call_pc[c] \in {"returned", "raised"}

\* C23: a call's streams and news fetch run only while the call holds a slot
\* of the gate, taken before they start and given back on every exit, by
\* return or by exception: the free slots are always the capacity less the
\* calls whose body is executing, never more bodies execute than the
\* capacity, and once every call has finished the free slots are back to
\* the initial count.
C23_GateScoped ==
    /\ gate_value = gate_capacity - Cardinality(Executing)
    /\ Cardinality(Executing) <= gate_capacity
    /\ CallsFinished => gate_value = gate_capacity

C23_Witness ==
    /\ CallsFinished
    /\ gate_capacity = 1
    /\ gate_value = 1
    /\ call_pc[1] = "returned"
    /\ call_pc[2] = "raised"
    /\ call_pc[3] = "returned"


\* -------------------------------------------------------------------- C24
\* a binary question with a history has been through the guard
BinaryGuarded ==
    guard.done /\ guard.kind = "binary" /\ guard.binary_history # <<>>

\* the distance of two probabilities given in hundredths
Distance(n, p) == IF n >= p THEN n - p ELSE p - n

\* C24: with p the most recent previous probability and n the new one, the
\* guard gives clamp(0.6*n + 0.4*p, 0.001, 0.999) when |n - p| > 0.15 and
\* exactly n when |n - p| <= 0.15, a drift of exactly 0.15 included; p = 0.30
\* and n = 0.80 give 0.60, p = 0.50 and n = 0.60 give 0.60.
C24_BinaryDriftGuard ==
    BinaryGuarded =>
        LET n == guard.binary_aggregate
            p == Latest(guard.binary_history)
        IN /\ ~guard.raised
           /\ guard.binary_out =
                  IF Distance(n, p) > 15
                  THEN Clamp(Blend(Probability(n), Probability(p)))
                  ELSE Probability(n)
           /\ (p = 30 /\ n = 80) => guard.binary_out = Probability(60)
           /\ (p = 50 /\ n = 60) => guard.binary_out = Probability(60)


\* -------------------------------------------------------------------- C25
\* the histories of binary questions that end as the given one does
SameLastEntry(history) ==
    {h \in SeqsUpTo(Hundredths, MaxHistory) :
        h # <<>> /\ h[Len(h)] = history[Len(history)]}

\* C25: the guard's result depends on the history only through its last
\* entry: every history with the same last entry gives, for the same new
\* prediction, the result this one gave (for a numeric question: the result
\* the last entry alone gives); the history [0.1, 0.5] with the new
\* prediction 0.80 gives 0.68.
C25_OnlyLastEntryMatters ==
    /\ BinaryGuarded =>
           /\ \A h \in SameLastEntry(guard.binary_history) :
                  BinaryResult(guard.binary_aggregate, h) = guard.binary_out
           /\ (guard.binary_history = <<10, 50>> /\ guard.binary_aggregate = 80)
                  => /\ FloatGT(guard.binary_out, FloatOfRatio(6799, 10000))
                     /\ FloatGT(FloatOfRatio(6801, 10000), guard.binary_out)
    /\ (guard.done /\ guard.kind = "numeric" /\ guard.numeric_history # <<>>)
           => guard.numeric_out =
                  NumericResult(guard.numeric_aggregate,
                                <<guard.numeric_history[Len(guard.numeric_history)]>>,
                                guard.lower_bound, guard.upper_bound)

C25_Witness ==
    /\ BinaryGuarded
    /\ guard.binary_history = <<10, 50>>
    /\ guard.binary_aggregate = 80
    /\ guard.binary_out = Blend(Probability(80), Probability(50))
    /\ guard.binary_out # Blend(Probability(80), Probability(10))


\* -------------------------------------------------------------------- C26
\* the question has no forecast history: the list is absent or empty
WithoutHistory ==
    \/ ~guard.given
    \/ (guard.kind = "binary" /\ guard.binary_history = <<>>)
    \/ (guard.kind = "numeric" /\ guard.numeric_history = <<>>)

\* C26: when the question has no forecast history (absent or an empty
\* list), the guard returns the aggregated prediction unchanged, for binary
\* and for numeric questions.
C26_NoHistoryPassesThrough ==
    (guard.done /\ WithoutHistory) =>
        /\ ~guard.raised
        /\ guard.kind = "binary"
               => guard.binary_out = Probability(guard.binary_aggregate)
        /\ guard.kind = "numeric"
               => /\ Len(guard.numeric_out) = Len(guard.numeric_aggregate)
                  /\ \A i \in DOMAIN guard.numeric_aggregate :
                         /\ guard.numeric_out[i].percentile
                                = guard.numeric_aggregate[i].percentile
                         /\ guard.numeric_out[i].value
                                = ValueOf(guard.numeric_aggregate[i].value)

C26_Witness ==
    /\ guard.done
    /\ guard.kind = "numeric"
    /\ guard.given
    /\ guard.numeric_history = <<>>
    /\ Len(guard.numeric_aggregate) = 3
    /\ Len(guard.numeric_out) = 3
    /\ guard.numeric_out[3].value = ValueOf(10)


\* -------------------------------------------------------------------- C27
\* a numeric question with a history has been through the guard
NumericGuarded ==
    guard.done /\ guard.kind = "numeric" /\ guard.numeric_history # <<>>

\* the new forecast as it came
Unchanged ==
    /\ Len(guard.numeric_out) = Len(guard.numeric_aggregate)
    /\ \A i \in DOMAIN guard.numeric_aggregate :
           /\ guard.numeric_out[i].percentile = guard.numeric_aggregate[i].percentile
           /\ guard.numeric_out[i].value = ValueOf(guard.numeric_aggregate[i].value)

\* x lies between y and z
Between(x, y, z) ==
    \/ FloatGE(x, y) /\ FloatGE(z, x)
    \/ FloatGE(x, z) /\ FloatGE(y, x)

\* the drift |new - prev| / span, the values in tenths, is more than 0.15
DriftExceeds(new, prev, span) == 100 * Distance(new, prev) > 15 * 10 * span

\* C27: with C the sorted percentile keys common to the new and the most
\* recent previous forecast and m = C[floor(len(C)/2)]: if C is not empty,
\* the range is positive and |new[m] - prev[m]| / range > 0.15, every
\* declared percentile q of the new forecast gets 0.6*new[q] + 0.4*prev[q],
\* or new[q] unchanged when the previous forecast lacks q, and each blended
\* value lies between the previous and the new one; in every other case the
\* new forecast is returned unchanged.
C27_NumericDriftGuard ==
    NumericGuarded =>
        LET new == guard.numeric_aggregate
            prev == guard.numeric_history[Len(guard.numeric_history)]
            C == Sorted(KeysOf(prev) \cap KeysOf(new))
            range == guard.upper_bound - guard.lower_bound
        IN IF /\ C # <<>>
              /\ range > 0
              /\ DriftExceeds(ValueAt(new, C[Len(C) \div 2 + 1]),
                              ValueAt(prev, C[Len(C) \div 2 + 1]), range)
           THEN /\ Len(guard.numeric_out) = Len(new)
                /\ \A i \in DOMAIN new :
                       /\ guard.numeric_out[i].percentile = new[i].percentile
                       /\ IF new[i].percentile \in KeysOf(prev)
                          THEN /\ guard.numeric_out[i].value
                                      = Blend(ValueOf(new[i].value),
                                              ValueOf(ValueAt(prev, new[i].percentile)))
                               /\ Between(guard.numeric_out[i].value,
                                          ValueOf(new[i].value),
                                          ValueOf(ValueAt(prev, new[i].percentile)))
                          ELSE guard.numeric_out[i].value = ValueOf(new[i].value)
           ELSE Unchanged


\* -------------------------------------------------------------------- C28
\* the values of a list of declared percentiles, in tenths, go up
IncreasingByPercentile(declared) ==
    \A i, j \in DOMAIN declared :
        i < j => /\ declared[i].percentile < declared[j].percentile
                 /\ declared[i].value < declared[j].value

\* C28: whenever the new and the previous percentile lists are each
\* increasing in value by percentile, whatever keys each declares, the list
\* the numeric guard hands to the constructor of the distribution is
\* non-decreasing in value by percentile and the guard does not fail.
C28_BlendStaysMonotone ==
    (/\ NumericGuarded
     /\ IncreasingByPercentile(guard.numeric_aggregate)
     /\ IncreasingByPercentile(guard.numeric_history[Len(guard.numeric_history)]))
        => /\ \A i \in 1..(Len(guard.numeric_out) - 1) :
                  FloatGE(guard.numeric_out[i + 1].value, guard.numeric_out[i].value)
           /\ ~guard.raised


\* -------------------------------------------------------------------- C29
\* the label in lower case
LowerCase(label) == IF label = "Emerging" THEN "emerging" ELSE label

\* C29: a status label from model output that differs from an enumerated
\* label only in letter case is taken as that label: when the extraction of
\* a precondition returns such a status (e.g. 'Emerging'), the precondition
\* is recorded with the enumerated status, not defaulted to absent.
C29_LabelsCaseInsensitive ==
    [][\A idx \in DOMAIN search : \A j \in DOMAIN search[idx] :
         \A r \in SearchResults :
            (/\ pc = "search"
             /\ search[idx][j] = "running"
             /\ SearchReturnsDict(idx, j, r)
             /\ r.status # NoKey
             /\ LowerCase(r.status) \in PreconditionStatus)
                => analysis'[driver_analyses[idx]].preconditions[j].status
                       = LowerCase(r.status)]_vars


\* -------------------------------------------------------------------- C30
\* the lines of a text
RECURSIVE Lines(_, _)
Lines(text, line) ==
    IF text = <<>> THEN <<line>>
    ELSE IF Head(text) = "\n" THEN <<line>> \o Lines(Tail(text), <<>>)
    ELSE Lines(Tail(text), Append(line, Head(text)))

\* the text has one line per item, each one starting with "- " and holding
\* the item's label, in the order of the items
OneLinePerItem(text, labels) ==
    LET lines == Lines(text, <<>>)
    IN /\ Len(lines) = Len(labels)
       /\ \A i \in DOMAIN labels :
              /\ Len(lines[i]) >= 3
              /\ lines[i][1] = "- "
              /\ lines[i][3] = labels[i]

RatioAtLeast(favorable, len, percent) == 100 * favorable >= percent * len

\* C31: the alignment score of a candidate is the number of its preconditions
\* with status emerging or stable over the number of its preconditions, 0
\* when it has none; it lies in [0, 1]; the emergence label is strong iff
\* the score is >= 0.75, moderate iff it is in [0.50, 0.75), weak iff it is
\* in [0.25, 0.50) and very_weak otherwise.
C31_AlignmentAndEmergence ==
    scoring.done =>
        LET favorable == scoring.favorable_count
            len == scoring.len
        IN /\ scoring.alignment_score =
                  (IF len = 0 THEN FloatZero ELSE FloatOfRatio(favorable, len))
           /\ FloatGE(scoring.alignment_score, FloatZero)
           /\ FloatGE(FloatOfRatio(1, 1), scoring.alignment_score)
           /\ scoring.emergence_strength =
                  (IF len > 0 /\ RatioAtLeast(favorable, len, 75) THEN "strong"
                   ELSE IF len > 0 /\ RatioAtLeast(favorable, len, 50) THEN "moderate"
                   ELSE IF len > 0 /\ RatioAtLeast(favorable, len, 25) THEN "weak"
                   ELSE "very_weak")

\* three of four preconditions favorable: a score of exactly 0.75
C31_Witness ==
    /\ scoring.done
    /\ scoring.len = 4
    /\ scoring.favorable_count = 3
    /\ scoring.alignment_score = STRONG_FROM
    /\ scoring.emergence_strength = "strong"


\* -------------------------------------------------------------------- C32
\* the drivers of a list are those of `validated`, in its order
InPhase3Order(drivers) ==
    \A k, l \in DOMAIN drivers :
        k < l =>
            \E a, b \in DOMAIN validated :
                /\ a < b
                /\ validated[a].slot = drivers[k].slot
                /\ validated[b].slot = drivers[l].slot

\* the selection is made of the drivers at the in-range indices, in the
\* order of the index list
SelectedInOrder(drivers, indices, selected) ==
    /\ Len(selected) = Cardinality(InRangePositions(indices, Len(drivers)))
    /\ \A k \in DOMAIN selected :
         selected[k] =
             drivers[1 + indices[
                 CHOOSE p \in InRangePositions(indices, Len(drivers)) :
                     Cardinality({q \in InRangePositions(indices, Len(drivers)) :
                                    q < p}) = k - 1]]

\* C32: the final-selection call is issued iff there are more scored drivers
\* than num_drivers_to_return; otherwise research_drivers returns the scored
\* list as it is, in the order of phase 3; when the call is issued the result
\* is made of the drivers at the in-range returned indices, in the returned
\* order, and an out-of-range index is ignored.
C32_FinalSelection ==
    /\ [](pc \in {"final_selection", "returned"} =>
            (calls["final_selection"] = 1 <=> Len(scored) > num_drivers_to_return))
    /\ [](calls["final_selection"] <= 1)
    /\ [](pc = "final_selection" =>
            \A indices \in SelectionLists :
                SelectedInOrder(scored, indices, FinalSelection(scored, indices)))
    /\ [][/\ (pc # "final_selection" /\ pc' = "returned") =>
               /\ result' = scored'
               /\ InPhase3Order(result')
          /\ (pc = "final_selection" /\ pc' = "returned") =>
               \E indices \in SelectionLists :
                   SelectedInOrder(scored, indices, result')]_vars

\* two scored drivers returned as they are for a target of two
C32_Witness ==
    /\ pc = "returned"
    /\ num_drivers_to_return = 2
    /\ Len(result) = 2
    /\ calls["final_selection"] = 0
    /\ validated[1].slot = 2

\* the final selection returned the second driver, then the first
C32_WitnessSelected ==
    /\ pc = "returned"
    /\ calls["final_selection"] = 1
    /\ Len(result) = 2
    /\ result[1].slot = scored[2].slot
    /\ result[2].slot = scored[1].slot


\* -------------------------------------------------------------------- C33
\* two precondition records differ in status, evidence_summary and citations
\* at most
SameButFindings(p, q) ==
    q = [p EXCEPT !.status = q.status,
                  !.evidence_summary = q.evidence_summary,
                  !.citations = q.citations]

\* two analysis records differ in the findings of their preconditions at most
SameButPreconditionFindings(a, b) ==
    /\ DOMAIN b.preconditions = DOMAIN a.preconditions
    /\ b = [a EXCEPT !.preconditions = b.preconditions]
    /\ \A j \in DOMAIN a.preconditions :
         SameButFindings(a.preconditions[j], b.preconditions[j])

\* C33: no field of a CandidateDriver changes after phase 1; while the
\* searches of phase 3 run and when their results are recombined, the only
\* fields written are a precondition's status, evidence_summary and
\* citations; a search task that failed wrote the status only and left
\* evidence_summary and citations as they were.
C33_OnlyFindingsWritten ==
    /\ [][pc \notin {"start", "broad_scan"} => candidates' = candidates]_vars
    /\ [][(pc = "search" /\ pc' = "search") =>
            /\ DOMAIN analysis' = DOMAIN analysis
            /\ \A slot \in DOMAIN analysis :
                 SameButPreconditionFindings(analysis[slot], analysis'[slot])
            /\ \A t \in SearchTaskIds :
                 (search[t[1]][t[2]] = "running" /\ search'[t[1]][t[2]] = "failed") =>
                     /\ SearchedRecord(t)'.evidence_summary
                          = SearchedRecord(t).evidence_summary
                     /\ SearchedRecord(t)'.citations = SearchedRecord(t).citations
         ]_vars
    /\ []((pc = "search" /\ SearchResolved) =>
            \A n \in DOMAIN analyses :
                /\ DOMAIN analyses[n].preconditions
                     = DOMAIN analysis[analyses[n].slot].preconditions
                /\ \A j \in DOMAIN analyses[n].preconditions :
                     SameButFindings(analysis[analyses[n].slot].preconditions[j],
                                     analyses[n].preconditions[j]))

\* one search has failed and one has written its findings
C33_Witness ==
    /\ pc = "search"
    /\ \E t, u \in SearchTaskIds :
         /\ search[t[1]][t[2]] = "failed"
         /\ SearchedRecord(t).status = "absent"
         /\ SearchedRecord(t).evidence_summary = "unset"
         /\ search[u[1]][u[2]] = "ok"
         /\ SearchedRecord(u).evidence_summary = "found"

\* -------------------------------------------------------------------- C34
\* the (analysed candidate, precondition) pairs
SearchedPairs ==
    UNION {{<<idx, j>> : j \in DOMAIN analysis[driver_analyses[idx]].preconditions} :
             idx \in DOMAIN driver_analyses}

\* C34: in phase 3b there is exactly one search task per pair of an analysed
\* candidate and one of its preconditions, and no task writes the precondition
\* record of another task, in whatever order the tasks complete, also when
\* the filter selected the same candidate twice.
C34_OneWriterPerPrecondition ==
    /\ [](pc = "search" =>
            /\ SearchTaskIds = SearchedPairs
            /\ calls["search"] = Cardinality(SearchedPairs)
            /\ \A a, b \in DOMAIN driver_analyses :
                 a # b => driver_analyses[a] # driver_analyses[b])
    /\ [][(pc = "search" /\ pc' = "search") =>
            \E t \in SearchTaskIds :
                /\ search[t[1]][t[2]] = "running"
                /\ search'[t[1]][t[2]] # "running"
                /\ \A u \in SearchTaskIds \ {t} :
                     /\ search'[u[1]][u[2]] = search[u[1]][u[2]]
                     /\ SearchedRecord(u)' = SearchedRecord(u)
         ]_vars

\* the same candidate selected twice: one of its two searches has written,
\* the other is still running
C34_Witness ==
    /\ pc = "search"
    /\ filtered = <<0, 0>>
    /\ driver_analyses = <<1, 2>>
    /\ search = <<<<"running">>, <<"ok">>>>
    /\ analysis[1].preconditions[1].status = "unset"
    /\ analysis[2].preconditions[1].status = "emerging"


\* -------------------------------------------------------------------- C35
\* C35: after the recombination every precondition of every analysis has the
\* status, the evidence summary and the citations its own search task wrote,
\* also when two preconditions of a candidate have the same description.
C35_OwnFindingsKept ==
    (pc = "search" /\ SearchResolved) =>
        \A n \in DOMAIN analyses :
            \A j \in DOMAIN analyses[n].preconditions :
                LET own == analysis[analyses[n].slot].preconditions[j]
                    p == analyses[n].preconditions[j]
                IN /\ p.status = own.status
                   /\ p.evidence_summary = own.evidence_summary
                   /\ p.citations = own.citations


\* -------------------------------------------------------------------- C36
\* C36: the news fetch is issued exactly once per call of run_research, only
\* when the three gathered streams have all resolved, whatever their
\* outcomes, and while the call still holds its slot of the gate; a failed
\* fetch leaves the sections assembled before it as they are.
C36_NewsFetchedOnceUnderGate ==
    /\ [][(news'.st = "fetching" /\ news.st # "fetching") =>
              /\ news.st = "pending"
              /\ bot_pc = "gather"
              /\ \A s \in DOMAIN results : results[s] # "pending"]_vars
    /\ [][/\ news.st # "pending" => news'.st # "pending"
          /\ news.st \in {"ok", "raised"} => news' = news]_vars
    /\ [](news.st = "fetching" => gate_value = gate_capacity - 1)
    /\ []((bot_pc = "gather" /\ \A s \in DOMAIN results : results[s] # "pending")
            => ENABLED GatherReturn)
    /\ [](bot_pc = "returned" =>
            /\ news.st \in {"ok", "raised"}
            /\ gate_value = gate_capacity
            /\ news.st = "raised" =>
                 research = SectionOf("drivers") \o SectionOf("key_factors")
                              \o SectionOf("base_rates"))

\* two streams raised, the base rates returned some, and the news fetch
\* failed: the report is the base-rate section
C36_Witness ==
    /\ bot_pc = "returned"
    /\ results["drivers"] = "raised"
    /\ results["key_factors"] = "raised"
    /\ results["base_rates"] = "some"
    /\ news.st = "raised"
    /\ research # <<>>
    /\ research = SectionOf("base_rates")


\* -------------------------------------------------------------------- C37
\* the guard ran on a binary question that has a previous forecast
BinaryGuardRan ==
    /\ guard.done
    /\ guard.kind = "binary"
    /\ guard.given
    /\ guard.binary_history # <<>>

\* C37: whenever the binary guard blends a previous and a new probability of
\* [0, 1], 0.6 * new + 0.4 * previous lies strictly inside [0.001, 0.999]
\* and the clamp leaves it as it is; so every output of the binary guard
\* lies between the previous and the new probability, both included.
C37_ClampNeverBinds ==
    BinaryGuardRan =>
        LET new == Probability(guard.binary_aggregate)
            previous == Probability(Latest(guard.binary_history))
        IN /\ FloatGT(FloatAbsDiff(new, previous), MAX_BINARY_DRIFT) =>
                /\ FloatGT(Blend(new, previous), FloatOfRatio(1, 1000))
                /\ FloatGT(FloatOfRatio(999, 1000), Blend(new, previous))
                /\ guard.binary_out = Blend(new, previous)
           /\ Between(guard.binary_out, previous, new)

\* a previous probability of 0.8 and a new one of 1: the blend is above 0.9
C37_Witness ==
    /\ BinaryGuardRan
    /\ guard.binary_aggregate = 100
    /\ Latest(guard.binary_history) = 80
    /\ guard.binary_out # Probability(100)
    /\ FloatGT(guard.binary_out, FloatOfRatio(9, 10))

NoCallAtGate == call_pc = [c \in Callers |-> "idle"]

\* a step of a call at the gate other than its being made or cancelled
GateProgress ==
    \E c \in Callers : CallAdmitted(c) \/ CallGathered(c) \/ CallReturns(c)

\* the other parts have not begun
OnlyPipeline == rl_total = 0 /\ bot_pc = "start" /\ gate_capacity = 1 /\ NoCallAtGate
OnlyRate == pc = "start" /\ bot_pc = "start" /\ gate_capacity = 1 /\ NoCallAtGate
OnlyBot == pc = "start" /\ rl_total = 0 /\ NoCallAtGate
OnlyGate == pc = "start" /\ rl_total = 0 /\ bot_pc = "start"

LivePipeline == OnlyPipeline /\ Next
LiveRate == OnlyRate /\ RateNext
LiveBot == OnlyBot /\ BotNext
LiveGate == OnlyGate /\ GateNext

LiveInit == Init \/ RateInit \/ BotInit \/ GateInit

LiveNext ==
    \/ LivePipeline
    \/ LiveRate
    \/ LiveBot
    \/ LiveGate

\* every call that was issued returns or fails, time passes, and the event
\* loop runs a task that is ready
SpecLive ==
    /\ LiveInit
    /\ [][LiveNext]_vars
    /\ WF_vars(LivePipeline)
    /\ WF_vars(LiveRate)
    /\ WF_vars(LiveBot)
    /\ WF_vars(LiveGate /\ GateProgress)

\* -------------------------------------------------------------------- C39
\* the phases of research_drivers still ahead
PhasesAhead ==
    CASE pc = "start" -> 8
      [] pc = "broad_scan" -> 7
      [] pc = "filter" -> 6
      [] pc = "analyze" -> 5
      [] pc = "search" -> 4
      [] pc = "evidence" -> 3
      [] pc = "score" -> 2
      [] pc = "final_selection" -> 1
      [] OTHER -> 0

\* the calls of the running batch still ahead: two per analysis waiting for
\* its dominance call, one per other unresolved task
CallsAhead ==
    Cardinality({i \in DOMAIN analysis : ~Resolved(analysis[i])})
    + Cardinality({i \in DOMAIN analysis : analysis[i].st = "dominance"})
    + Cardinality({t \in SearchTaskIds : search[t[1]][t[2]] = "running"})
    + Cardinality({k \in DOMAIN evidence : ~Resolved(evidence[k])})

\* the seconds until the window is empty: those the task started last
\* still spends in it
WindowAhead ==
    LET started == {a \in Ages : rl_window[a] > 0}
    IN IF started = {} THEN 0
       ELSE TIME_PERIOD_IN_SECONDS - (CHOOSE a \in started : \A b \in started : a <= b)

\* the steps a call at the gate, or the body of run_research, has ahead
StepsAhead(position) ==
    CASE position \in {"idle", "start"} -> 4
      [] position = "waiting" -> 3
      [] position = "gather" -> 2
      [] position = "news" -> 1
      [] OTHER -> 0

\* what is left to do, a natural number: of research_drivers once it is
\* called, of the search batch at the limiter, or else of the calls of
\* run_research, made or still to be made
Remaining ==
    IF pc # "start" THEN 100 * PhasesAhead + CallsAhead
    ELSE IF rl_total > 0
    THEN (TIME_PERIOD_IN_SECONDS + 1) * rl_waiting + WindowAhead
    ELSE (TIME_PERIOD_IN_SECONDS + 1) * (MaxSearchTasks + 1)
         + 10 * StepsAhead(bot_pc)
         + Cardinality({s \in DOMAIN results : results[s] = "pending"})
         + SumTo([c \in 0..MaxCallers |->
                    IF c = 0 THEN 0 ELSE StepsAhead(call_pc[c])], MaxCallers)

\* a step of research_drivers is enabled: a call of the phase can resolve,
\* or the batch of the phase has resolved and the next phase can start
PipelineCanStep ==
    \/ ENABLED BroadScanFail
    \/ ENABLED FilterFail
    \/ \E i \in DOMAIN analysis :
         ENABLED DominanceFail(i) \/ ENABLED PreconditionsFail(i)
    \/ ENABLED AnalyzeBatchDone
    \/ \E t \in SearchTaskIds : ENABLED SearchFail(t[1], t[2])
    \/ (pc = "search" /\ SearchResolved)
    \/ \E k \in DOMAIN evidence : ENABLED EvidenceFail(k)
    \/ ENABLED EvidenceBatchDone
    \/ ENABLED ScoreFail
    \/ ENABLED FinalSelectionFail

\* a second that passes moves the window, or the window is empty and the
\* limiter starts up to CALLS_PER_PERIOD waiting tasks
RateCanStep == (\E a \in Ages : rl_window[a] > 0) \/ CALLS_PER_PERIOD > 0

\* wherever a call has not ended a step of it is enabled, and a call that has
\* ended has given its slot back
NothingWaitsForEver ==
    /\ pc \notin {"start", "returned", "raised"} => PipelineCanStep
    /\ rl_waiting > 0 => RateCanStep
    /\ bot_pc \notin {"start", "returned"} => ENABLED BotNext
    /\ (\E c \in Callers : call_pc[c] \in {"waiting", "gather", "news"})
         => ENABLED GateProgress
    /\ bot_pc = "returned" => gate_value = gate_capacity
    /\ (\A c \in Callers : call_pc[c] \in {"idle", "returned", "raised"})
         => (bot_pc = "gather" \/ bot_pc = "news" \/ gate_value = gate_capacity)

C39_WitnessPipeline ==
    /\ pc = "search"
    /\ SearchResolved
    /\ failed_slots # {}
    /\ \E t \in SearchTaskIds : search[t[1]][t[2]] = "failed"

====
